---- MODULE Spec2Model ----
(***************************************************************************)
(* Model of the asset store (config/settings.py), the content repository  *)
(* (data/data_manager.py) and the generic selection flow with its item     *)
(* rendering (cogs/base_selector.py) of the 504th tactical bot.            *)
(*                                                                         *)
(* All handlers are plain synchronous Python (no await between their       *)
(* statements), so under the asyncio event loop each one runs to           *)
(* completion: one action per handler.                                     *)
(***************************************************************************)
EXTENDS Integers, Sequences, FiniteSets, TLC

VARIABLES
    fs,               \* assets directory content: file name -> "absent" | "file" | "dir"
    assets_dir_exists,  \* Settings.ASSETS_DIR.exists()
    USE_EXTERNAL_ASSETS,      \* Settings.USE_EXTERNAL_ASSETS (read once at import)
    EXTERNAL_ASSET_BASE_URL,  \* Settings.EXTERNAL_ASSET_BASE_URL (read once at import)
    asset_cache,       \* Settings._asset_cache: file name -> path
    cache_initialized, \* Settings._cache_initialized
    buildReturned,    \* history: initialize_asset_cache has returned at least once
    enumSinceRefresh, \* history: directory enumerations since start / last refresh began
    lastCall,         \* history: the last event (operation, inputs, observations, result)
    disk,             \* data directory: category -> content of <category>.json
    dm_cache,         \* data_manager._cache: category -> loaded data
    flow,             \* the selection flow: its state and the widget shown to the user
    view,             \* the discord.ui.View of the flow's last message
    interaction,      \* the messages the last handler sent on its interaction
    lastSel,          \* history: the last event of the selection engine
    lastUrl,          \* history: the last call of get_asset_url and its result
    lastRender        \* history: the last render of an item (callback, lines 84-112)

assetVars == <<fs, assets_dir_exists, USE_EXTERNAL_ASSETS, EXTERNAL_ASSET_BASE_URL,
               asset_cache,
               cache_initialized, buildReturned, enumSinceRefresh, lastCall>>

selVars == <<disk, dm_cache, flow, view, interaction, lastSel>>

renderVars == <<lastUrl, lastRender>>

vars == <<assetVars, selVars, renderVars>>

----------------------------------------------------------------------------
(* Strings that the code takes apart are sequences of one-character strings. *)

UpperChars == <<"A","B","C","D","E","F","G","H","I","J","K","L","M",
                "N","O","P","Q","R","S","T","U","V","W","X","Y","Z">>
LowerChars == <<"a","b","c","d","e","f","g","h","i","j","k","l","m",
                "n","o","p","q","r","s","t","u","v","w","x","y","z">>

\* str.lower() on one character
LowerChar(c) ==
    IF \E i \in 1..Len(UpperChars) : UpperChars[i] = c
    THEN LowerChars[CHOOSE i \in 1..Len(UpperChars) : UpperChars[i] = c]
    ELSE c

\* str.lower()
Lower(s) == [i \in 1..Len(s) |-> LowerChar(s[i])]

\* pathlib.PurePath.suffix: the text from the last dot, when that dot is
\* neither the first nor the last character of the name; else the empty string
Suffix(name) ==
    LET dots == {i \in 1..Len(name) : name[i] = "."}
    IN  IF dots = {} THEN <<>>
        ELSE LET i == CHOOSE d \in dots : \A e \in dots : e <= d
             IN  IF 1 < i /\ i < Len(name) THEN SubSeq(name, i, Len(name)) ELSE <<>>

\* the literal list of settings.py line 45
SupportedSuffixes ==
    { <<".","p","n","g">>, <<".","j","p","g">>, <<".","j","p","e","g">>,
      <<".","g","i","f">>, <<".","w","e","b","p">> }

\* file_path.suffix.lower() in [...]
HasSupportedSuffix(name) == Lower(Suffix(name)) \in SupportedSuffixes

\* The file names of the model: an image, an image with an upper-case
\* extension, a second image, and a file that is not an image.
NamePng == <<"a",".","p","n","g">>
NameJpgUpper == <<"B",".","J","P","G">>
NameGif == <<"c",".","g","i","f">>
NameTxt == <<"n",".","t","x","t">>
Names == {NamePng, NameJpgUpper, NameGif, NameTxt}

Kinds == {"absent", "file", "dir"}

\* cls.ASSETS_DIR / filename
AssetPath(name) == [dir |-> "assets", name |-> name]

\* path.exists() and path.is_file(); a name the directory does not hold is
\* no file
PathIsFile(fsys, path) == path.name \in DOMAIN fsys /\ fsys[path.name] = "file"

\* the entries ASSETS_DIR.iterdir() yields that pass the filter of line 45
ImageFiles(fsys) == {n \in DOMAIN fsys : fsys[n] = "file" /\ HasSupportedSuffix(n)}

\* cls._asset_cache[name] = path, for every name of S
CachePut(cache, S) ==
    [k \in (DOMAIN cache) \cup S |-> IF k \in S THEN AssetPath(k) ELSE cache[k]]

EmptyCache == [k \in {} |-> AssetPath(k)]

----------------------------------------------------------------------------
(* Settings.initialize_asset_cache.  The set of possible outcomes of one   *)
(* call: the enumeration either completes, or raises (the environment's    *)
(* choice) after the entries of `partial` were cached; iterdir's order is  *)
(* arbitrary, so `partial` is any subset of the image files.               *)

\* the except branch (lines 51-53) forgets to set the flag
initialize_asset_cache_NoFlagOnError(cache, init, dirExists, fsys) ==
    IF init
    THEN {[cache |-> cache, init |-> TRUE, enumerated |-> FALSE, failed |-> FALSE]}
    ELSE IF ~dirExists
    THEN {[cache |-> cache, init |-> TRUE, enumerated |-> FALSE, failed |-> FALSE]}
    ELSE {[cache |-> CachePut(cache, ImageFiles(fsys)), init |-> TRUE,
           enumerated |-> TRUE, failed |-> FALSE]}
         \cup
         {[cache |-> CachePut(cache, partial), init |-> FALSE,
           enumerated |-> TRUE, failed |-> TRUE] :
             partial \in SUBSET ImageFiles(fsys)}

\* the missing-directory branch (lines 38-41) forgets to set the flag
initialize_asset_cache_NoFlagOnMissingDir(cache, init, dirExists, fsys) ==
    IF init
    THEN {[cache |-> cache, init |-> TRUE, enumerated |-> FALSE, failed |-> FALSE]}
    ELSE IF ~dirExists
    THEN {[cache |-> cache, init |-> FALSE, enumerated |-> FALSE, failed |-> FALSE]}
    ELSE {[cache |-> CachePut(cache, ImageFiles(fsys)), init |-> TRUE,
           enumerated |-> TRUE, failed |-> FALSE]}
         \cup
         {[cache |-> CachePut(cache, partial), init |-> TRUE,
           enumerated |-> TRUE, failed |-> TRUE] :
             partial \in SUBSET ImageFiles(fsys)}

initialize_asset_cache(cache, init, dirExists, fsys) ==
    IF init
    THEN {[cache |-> cache, init |-> TRUE, enumerated |-> FALSE, failed |-> FALSE]}
    ELSE IF ~dirExists
    THEN {[cache |-> cache, init |-> TRUE, enumerated |-> FALSE, failed |-> FALSE]}
    ELSE {[cache |-> CachePut(cache, ImageFiles(fsys)), init |-> TRUE,
           enumerated |-> TRUE, failed |-> FALSE]}
         \cup
         {[cache |-> CachePut(cache, partial), init |-> TRUE,
           enumerated |-> TRUE, failed |-> TRUE] :
             partial \in SUBSET ImageFiles(fsys)}

\* the open error escapes: no try/except around discord.File
TryDiscordFile_NoCatch(fsys, path) ==
    IF PathIsFile(fsys, path) THEN "file" ELSE "raised"

\* try: discord.File(asset_path, filename=filename) / except Exception: return None
\* (discord.File opens the path when it is constructed)
TryDiscordFile(fsys, path) ==
    IF PathIsFile(fsys, path) THEN "file" ELSE "none"

\* the fallback probe returns the file but does not add it to the cache
get_asset_file_NoInsert(cache, init, dirExists, fsys, external, name) ==
    IF external
    THEN {[cache |-> cache, init |-> init, enumerated |-> FALSE, failed |-> FALSE,
           how |-> "external", result |-> "none"]}
    ELSE {  IF name \in DOMAIN i.cache
            THEN [cache |-> i.cache, init |-> i.init, enumerated |-> i.enumerated,
                  failed |-> i.failed, how |-> "hit",
                  result |-> TryDiscordFile(fsys, i.cache[name])]
            ELSE IF PathIsFile(fsys, AssetPath(name))
            THEN [cache |-> i.cache, init |-> i.init,
                  enumerated |-> i.enumerated, failed |-> i.failed, how |-> "probe",
                  result |-> TryDiscordFile(fsys, AssetPath(name))]
            ELSE [cache |-> i.cache, init |-> i.init, enumerated |-> i.enumerated,
                  failed |-> i.failed, how |-> "miss", result |-> "none"]
          : i \in initialize_asset_cache(cache, init, dirExists, fsys) }

\* a cache hit whose file cannot be opened drops the entry from the cache
get_asset_file_EvictStale(cache, init, dirExists, fsys, external, name) ==
    IF external
    THEN {[cache |-> cache, init |-> init, enumerated |-> FALSE, failed |-> FALSE,
           how |-> "external", result |-> "none"]}
    ELSE {  IF name \in DOMAIN i.cache
            THEN [cache |-> IF PathIsFile(fsys, i.cache[name]) THEN i.cache
                            ELSE [k \in (DOMAIN i.cache) \ {name} |-> i.cache[k]],
                  init |-> i.init, enumerated |-> i.enumerated,
                  failed |-> i.failed, how |-> "hit",
                  result |-> TryDiscordFile(fsys, i.cache[name])]
            ELSE IF PathIsFile(fsys, AssetPath(name))
            THEN [cache |-> CachePut(i.cache, {name}), init |-> i.init,
                  enumerated |-> i.enumerated, failed |-> i.failed, how |-> "probe",
                  result |-> TryDiscordFile(fsys, AssetPath(name))]
            ELSE [cache |-> i.cache, init |-> i.init, enumerated |-> i.enumerated,
                  failed |-> i.failed, how |-> "miss", result |-> "none"]
          : i \in initialize_asset_cache(cache, init, dirExists, fsys) }

(* Settings.get_asset_file: `how` tells the path taken (external policy,    *)
(* cache hit, fallback probe, miss)                                         *)
get_asset_file(cache, init, dirExists, fsys, external, name) ==
    IF external
    THEN {[cache |-> cache, init |-> init, enumerated |-> FALSE, failed |-> FALSE,
           how |-> "external", result |-> "none"]}
    ELSE {  IF name \in DOMAIN i.cache
            THEN [cache |-> i.cache, init |-> i.init, enumerated |-> i.enumerated,
                  failed |-> i.failed, how |-> "hit",
                  result |-> TryDiscordFile(fsys, i.cache[name])]
            ELSE IF PathIsFile(fsys, AssetPath(name))
            THEN [cache |-> CachePut(i.cache, {name}), init |-> i.init,
                  enumerated |-> i.enumerated, failed |-> i.failed, how |-> "probe",
                  result |-> TryDiscordFile(fsys, AssetPath(name))]
            ELSE [cache |-> i.cache, init |-> i.init, enumerated |-> i.enumerated,
                  failed |-> i.failed, how |-> "miss", result |-> "none"]
          : i \in initialize_asset_cache(cache, init, dirExists, fsys) }

\* the cache is not cleared before the rebuild
refresh_asset_cache_NoClear(cache, init, dirExists, fsys) ==
    initialize_asset_cache(cache, FALSE, dirExists, fsys)

(* Settings.refresh_asset_cache: flag reset, cache.clear(), initialize *)
refresh_asset_cache(cache, init, dirExists, fsys) ==
    initialize_asset_cache(EmptyCache, FALSE, dirExists, fsys)

----------------------------------------------------------------------------
(* Settings.get_asset_url *)

AttachmentPrefix == <<"a","t","t","a","c","h","m","e","n","t",":","/","/">>

\* s.startswith(p)
StartsWith(s, p) == Len(s) >= Len(p) /\ SubSeq(s, 1, Len(p)) = p

\* s.rstrip(c): every trailing c is removed
RECURSIVE RStrip(_, _)
RStrip(s, c) ==
    IF s # <<>> /\ s[Len(s)] = c THEN RStrip(SubSeq(s, 1, Len(s) - 1), c) ELSE s

\* s.replace(old, ''): every occurrence of old, found left to right, is removed
RECURSIVE RemoveAll(_, _)
RemoveAll(s, old) ==
    IF s = <<>> THEN <<>>
    ELSE IF StartsWith(s, old) THEN RemoveAll(SubSeq(s, Len(old) + 1, Len(s)), old)
    ELSE <<s[1]>> \o RemoveAll(SubSeq(s, 2, Len(s)), old)

\* Settings.get_asset_url, lines 57-61: the external form needs the flag and
\* a non-empty base URL
get_asset_url(external, base, filename) ==
    IF external /\ base # <<>>
    THEN RStrip(base, "/") \o <<"/">> \o filename
    ELSE AttachmentPrefix \o filename

\* the base URLs of the model: not set, a host, a host with one and with two
\* trailing slashes
BaseUrls == { <<>>, <<"h">>, <<"h","/">>, <<"h","/","/">> }

----------------------------------------------------------------------------
(* History record of the last event *)

MaxEnum == 3

Bump(n) == IF n < MaxEnum THEN n + 1 ELSE n

NoName == <<>>

Event(op, name, o, how, result) ==
    [op |-> op, name |-> name, how |-> how, result |-> result,
     keysBefore |-> DOMAIN asset_cache,
     initBefore |-> cache_initialized,
     returnedBefore |-> buildReturned,
     enumerated |-> o.enumerated, failed |-> o.failed,
     changed |-> (o.cache # asset_cache \/ o.init # cache_initialized)]

EnvEvent(op, name) ==
    [op |-> op, name |-> name, how |-> "na", result |-> "na",
     keysBefore |-> {},
     initBefore |-> FALSE, returnedBefore |-> FALSE,
     enumerated |-> FALSE, failed |-> FALSE, changed |-> FALSE]

----------------------------------------------------------------------------
(* The asset store's operations *)

\* buildCache(force = false): Settings.initialize_asset_cache()
BuildCache ==
    \E o \in initialize_asset_cache(asset_cache, cache_initialized, assets_dir_exists, fs) :
        /\ asset_cache' = o.cache
        /\ cache_initialized' = o.init
        /\ buildReturned' = TRUE
        /\ enumSinceRefresh' = IF o.enumerated THEN Bump(enumSinceRefresh)
                               ELSE enumSinceRefresh
        /\ lastCall' = Event("build", NoName, o, "na", "na")
        /\ UNCHANGED <<fs, assets_dir_exists, USE_EXTERNAL_ASSETS, EXTERNAL_ASSET_BASE_URL, selVars, renderVars>>

\* fetchLocal(name): Settings.get_asset_file(name)
FetchLocal(name) ==
    \E o \in get_asset_file(asset_cache, cache_initialized, assets_dir_exists,
                                  fs, USE_EXTERNAL_ASSETS, name) :
        /\ asset_cache' = o.cache
        /\ cache_initialized' = o.init
        /\ buildReturned' = (buildReturned \/ ~USE_EXTERNAL_ASSETS)
        /\ enumSinceRefresh' = IF o.enumerated THEN Bump(enumSinceRefresh)
                               ELSE enumSinceRefresh
        /\ lastCall' = Event("fetch", name, o, o.how, o.result)
        /\ UNCHANGED <<fs, assets_dir_exists, USE_EXTERNAL_ASSETS, EXTERNAL_ASSET_BASE_URL, selVars, renderVars>>

\* refresh: Settings.refresh_asset_cache()
Refresh ==
    \E o \in refresh_asset_cache(asset_cache, cache_initialized, assets_dir_exists, fs) :
        /\ asset_cache' = o.cache
        /\ cache_initialized' = o.init
        /\ buildReturned' = TRUE
        /\ enumSinceRefresh' = IF o.enumerated THEN 1 ELSE 0
        /\ lastCall' = Event("refresh", NoName, o, "na", "na")
        /\ UNCHANGED <<fs, assets_dir_exists, USE_EXTERNAL_ASSETS, EXTERNAL_ASSET_BASE_URL, selVars, renderVars>>

(* The environment: files and the assets directory come and go *)

FsCreate(name, kind) ==
    /\ assets_dir_exists
    /\ fs[name] = "absent"
    /\ kind # "absent"
    /\ fs' = [fs EXCEPT ![name] = kind]
    /\ lastCall' = EnvEvent("fs_create", name)
    /\ UNCHANGED <<assets_dir_exists, USE_EXTERNAL_ASSETS, EXTERNAL_ASSET_BASE_URL, asset_cache, cache_initialized,
                   buildReturned, enumSinceRefresh, selVars, renderVars>>

FsDelete(name) ==
    /\ fs[name] # "absent"
    /\ fs' = [fs EXCEPT ![name] = "absent"]
    /\ lastCall' = EnvEvent("fs_delete", name)
    /\ UNCHANGED <<assets_dir_exists, USE_EXTERNAL_ASSETS, EXTERNAL_ASSET_BASE_URL, asset_cache, cache_initialized,
                   buildReturned, enumSinceRefresh, selVars, renderVars>>

RemoveAssetsDir ==
    /\ assets_dir_exists
    /\ assets_dir_exists' = FALSE
    /\ fs' = [n \in Names |-> "absent"]
    /\ lastCall' = EnvEvent("rmdir", NoName)
    /\ UNCHANGED <<USE_EXTERNAL_ASSETS, EXTERNAL_ASSET_BASE_URL, asset_cache, cache_initialized,
                   buildReturned, enumSinceRefresh, selVars, renderVars>>

CreateAssetsDir ==
    /\ ~assets_dir_exists
    /\ assets_dir_exists' = TRUE
    /\ lastCall' = EnvEvent("mkdir", NoName)
    /\ UNCHANGED <<fs, USE_EXTERNAL_ASSETS, EXTERNAL_ASSET_BASE_URL, asset_cache, cache_initialized,
                   buildReturned, enumSinceRefresh, selVars, renderVars>>

----------------------------------------------------------------------------
(* JSON values as the data files hold them.  An object keeps its entries   *)
(* in order (Python dicts iterate in insertion order).  Keys are strings;  *)
(* string values are sequences of characters.                               *)

JObj(kv) == [tag |-> "obj", kv |-> kv, s |-> <<>>]
JNull == [tag |-> "null", kv |-> <<>>, s |-> <<>>]
JStr(s) == [tag |-> "str", kv |-> <<>>, s |-> s]

\* a JSON number: s is its decimal text
JNum(digits) == [tag |-> "num", kv |-> <<>>, s |-> digits]

\* a JSON array of strings; its elements are kept in kv, under the empty key
\* JSON true and false, with the text str() gives them
JBool(b) ==
    [tag |-> "bool", kv |-> <<>>,
     s |-> IF b THEN <<"T","r","u","e">> ELSE <<"F","a","l","s","e">>]

JList(strs) ==
    [tag |-> "list", kv |-> [i \in 1..Len(strs) |-> <<"", JStr(strs[i])>>], s |-> <<>>]
EmptyObj == JObj(<<>>)

\* the AttributeError of calling .get / .items on a value that is no dict
Raised == [tag |-> "raised", kv |-> <<>>, s |-> <<>>]

\* list(d.keys())
Keys(d) == [i \in 1..Len(d.kv) |-> d.kv[i][1]]

\* k in d
HasKey(d, k) == \E i \in 1..Len(d.kv) : d.kv[i][1] = k

\* d[k]
Lookup(d, k) == d.kv[CHOOSE i \in 1..Len(d.kv) : d.kv[i][1] = k][2]

\* Python truthiness: `not v` is ~Truthy(v)
Truthy(v) == \/ v.tag = "obj" /\ v.kv # <<>>
             \/ v.tag = "str" /\ v.s # <<>>
             \/ v.tag = "num" /\ v.s # <<"0">>
             \/ v = JBool(TRUE)

\* str(v), for the values the model's items hold as attributes: strings,
\* numbers and null
Str(v) == IF v.tag = "null" THEN <<"N","o","n","e">> ELSE v.s

\* faction = None
None == "<None>"

\* `if faction`
FactionTruthy(f) == f # None /\ f # ""

(* The data files of the model *)

ItemA == JObj(<< <<"title", JStr(<<"A">>)>> >>)
ItemB == JObj(<< <<"title", JStr(<<"B">>)>> >>)

\* two factions
GatedData ==
    JObj(<< <<"us", JObj(<< <<"sherman", ItemA>>, <<"stuart", ItemB>> >>)>>,
            <<"german", JObj(<< <<"tiger", ItemA>> >>)>> >>)

\* one faction
OneFactionData ==
    JObj(<< <<"us", JObj(<< <<"rifleman", ItemA>>, <<"medic", ItemB>> >>)>> >>)

\* two factions; one record of the first is null
GatedNullData ==
    JObj(<< <<"us", JObj(<< <<"sherman", ItemA>>, <<"bad", JNull>>,
                            <<"stuart", ItemB>> >>)>>,
            <<"german", JObj(<< <<"tiger", ItemA>> >>)>> >>)

\* no faction level: item key -> record; one record is null, one is empty
FlatData ==
    JObj(<< <<"flank", ItemA>>, <<"bad", JNull>>, <<"smoke", EmptyObj>> >>)

\* no faction level, a single item
FlatOneData == JObj(<< <<"jeep", ItemA>> >>)

\* an item with a display field and image references: `thumb` is the value
\* of its thumbnail attribute (NoThumb: the item has none), `images` the list
\* of its additional_images attribute
NoThumb == <<"-">>

GalleryItem(thumb, images) ==
    JObj(<< <<"title", JStr(<<"P">>)>>, <<"field_role", JStr(<<"r">>)>> >>
         \o (IF thumb = NoThumb THEN <<>> ELSE << <<"thumbnail", JStr(thumb)>> >>)
         \o << <<"additional_images", JList(images)>> >>)

\* a category file holding that single item
GalleryData(thumb, images) == JObj(<< <<"panther", GalleryItem(thumb, images)>> >>)

\* thumbnail attributes: none, a file name, a file name behind the
\* attachment:// prefix
ThumbRefs == {NoThumb, NamePng, AttachmentPrefix \o NameGif}

\* additional_images attributes
ImageLists ==
    { <<>>,
      <<NameJpgUpper>>,
      <<NameJpgUpper, NameGif>>,
      <<NameTxt, NameGif>>,
      <<NameGif, NameJpgUpper, NameTxt>>,
      <<NameJpgUpper, NameGif, NameTxt, NamePng>>,
      <<NameTxt, NamePng, NameGif, NameJpgUpper>>,
      <<NamePng, NamePng, AttachmentPrefix \o NamePng>> }

FileMissing == [tag |-> "missing", kv |-> <<>>, s |-> <<>>]
FileCorrupt == [tag |-> "corrupt", kv |-> <<>>, s |-> <<>>]
NotCached == [tag |-> "notcached", kv |-> <<>>, s |-> <<>>]

Contents == {FileMissing, FileCorrupt, EmptyObj, GatedData, OneFactionData,
             FlatData, FlatOneData}

\* categories registered in cogs/content_manager.py
Categories == {"tanks", "tips"}

\* arguments of direct get_item calls
KeyInputs == {"us", "german", "sherman", "tiger", "flank", "zz"}
FactionInputs == {None, "us", "german", "axis"}

\* every value a dropdown of the model can offer
OptionValues == {"none", "us", "german", "sherman", "stuart", "tiger", "rifleman",
                 "medic", "flank", "bad", "smoke", "jeep", "title", "panther"}

----------------------------------------------------------------------------
(* data/data_manager.py *)

\* the JSON error of a corrupt file escapes load_data
load_data_CorruptRaises(cache, dsk, category) ==
    IF cache[category] # NotCached
    THEN [data |-> cache[category], cache |-> cache]
    ELSE IF dsk[category] = FileMissing
    THEN [data |-> EmptyObj, cache |-> cache]
    ELSE IF dsk[category] = FileCorrupt
    THEN [data |-> Raised, cache |-> cache]
    ELSE [data |-> dsk[category],
          cache |-> [cache EXCEPT ![category] = dsk[category]]]

\* the file is read on every call, whatever the cache holds
load_data_Reload(cache, dsk, category) ==
    IF dsk[category] = FileMissing \/ dsk[category] = FileCorrupt
    THEN [data |-> EmptyObj, cache |-> cache]
    ELSE [data |-> dsk[category],
          cache |-> [cache EXCEPT ![category] = dsk[category]]]

\* DataManager.load_data: the data returned and the cache afterwards
load_data(cache, dsk, category) ==
    IF cache[category] # NotCached
    THEN [data |-> cache[category], cache |-> cache]
    ELSE IF dsk[category] = FileMissing
    THEN [data |-> EmptyObj, cache |-> cache]
    ELSE IF dsk[category] = FileCorrupt
    THEN [data |-> EmptyObj, cache |-> cache]
    ELSE [data |-> dsk[category],
          cache |-> [cache EXCEPT ![category] = dsk[category]]]

\* DataManager.get_factions
get_factions(cache, dsk, category) ==
    Keys(load_data(cache, dsk, category).data)

\* DataManager.get_items
get_items(cache, dsk, category, faction) ==
    LET data == load_data(cache, dsk, category).data
    IN  IF FactionTruthy(faction) /\ HasKey(data, faction)
        THEN Lookup(data, faction)
        ELSE data

\* dict.get(key, {}) on the value get_items returned
DictGetOrEmpty(items, key) ==
    IF items.tag # "obj" THEN Raised
    ELSE IF HasKey(items, key) THEN Lookup(items, key)
    ELSE EmptyObj

\* the faction argument is dropped: the key is looked up in the whole category
get_item_IgnoreFaction(cache, dsk, category, item_key, faction) ==
    DictGetOrEmpty(get_items(cache, dsk, category, None), item_key)

\* DataManager.get_item
get_item(cache, dsk, category, item_key, faction) ==
    DictGetOrEmpty(get_items(cache, dsk, category, faction), item_key)

----------------------------------------------------------------------------
(* cogs/base_selector.py: the selection flow *)

MaxSelectOptions == 25

Take(seq, n) == SubSeq(seq, 1, IF Len(seq) < n THEN Len(seq) ELSE n)

\* BaseSelectorDropdown.__init__: the option values.  An entry whose record
\* is malformed raises inside the try and gets the fallback option, which
\* carries the same value.
BaseSelectorDropdown_options(items) ==
    IF ~Truthy(items) THEN <<"none">>
    ELSE Take(Keys(items), MaxSelectOptions)

----------------------------------------------------------------------------
(* cogs/base_selector.py: rendering an item *)

\* the size of each file of the model, as file.fp.seek(0, 2) reports it:
\* one byte, 12 MiB, 13 MiB and 13 MiB
FileSize(name) ==
    CASE name = NamePng -> 1
      [] name = NameJpgUpper -> 12 * 1024 * 1024
      [] OTHER -> 13 * 1024 * 1024

\* 25 * 1024 * 1024, the limit of line 231
MAX_TOTAL_SIZE == 25 * 1024 * 1024

\* files[:3], line 233
MaxFilesOverLimit == 3

\* field_count < 25, line 147
MaxEmbedFields == 25

\* the prefix is removed when the reference starts with it (lines 193-194)
StripAttachment(ref) ==
    IF StartsWith(ref, AttachmentPrefix) THEN RemoveAll(ref, AttachmentPrefix) ELSE ref

\* the references get_files looks up, in the order it looks them up: the
\* thumbnail (ref 0, prefix stripped), then additional_images[1..] as they
\* are written
AssetRefs(item_data) ==
    (IF HasKey(item_data, "thumbnail")
     THEN << [name |-> StripAttachment(Lookup(item_data, "thumbnail").s), ref |-> 0] >>
     ELSE <<>>)
    \o (IF HasKey(item_data, "additional_images")
        THEN LET images == Lookup(item_data, "additional_images").kv
             IN  [i \in 1..Len(images) |-> [name |-> images[i][2].s, ref |-> i]]
        ELSE <<>>)

\* the calls of Settings.get_asset_file for refs[1..n], one after the other:
\* every state (cache, flag, files appended so far) they can end in
RECURSIVE FetchRefs(_, _, _, _, _, _)
FetchRefs(refs, n, start, dirExists, fsys, external) ==
    IF n = 0 THEN {start}
    ELSE UNION {
           { [cache |-> o.cache, init |-> o.init,
              enumerated |-> (s.enumerated \/ o.enumerated),
              failed |-> (s.failed \/ o.failed),
              files |-> IF o.result = "file"
                        THEN Append(s.files, [name |-> refs[n].name, ref |-> refs[n].ref,
                                              size |-> FileSize(refs[n].name)])
                        ELSE s.files]
             : o \in get_asset_file(s.cache, s.init, dirExists, fsys, external,
                                    refs[n].name) }
           : s \in FetchRefs(refs, n - 1, start, dirExists, fsys, external) }

RECURSIVE TotalSize(_)
TotalSize(files) ==
    IF files = <<>> THEN 0 ELSE files[1].size + TotalSize(Tail(files))

\* the limit is compared with >= instead of >
get_files_LimitInclusive(item_data, cache, init, dirExists, fsys, external) ==
    IF external
    THEN {[files |-> <<>>, fetched |-> <<>>, total |-> 0, warned |-> FALSE,
           cache |-> cache, init |-> init, enumerated |-> FALSE, failed |-> FALSE]}
    ELSE LET refs == AssetRefs(item_data)
             start == [cache |-> cache, init |-> init, enumerated |-> FALSE,
                       failed |-> FALSE, files |-> <<>>]
         IN  { [files |-> IF TotalSize(s.files) >= MAX_TOTAL_SIZE
                          THEN Take(s.files, MaxFilesOverLimit) ELSE s.files,
                fetched |-> s.files,
                total |-> TotalSize(s.files),
                warned |-> (TotalSize(s.files) >= MAX_TOTAL_SIZE),
                cache |-> s.cache, init |-> s.init,
                enumerated |-> s.enumerated, failed |-> s.failed]
               : s \in FetchRefs(refs, Len(refs), start, dirExists, fsys, external) }

\* every file is put in front of the list instead of appended to it
get_files_ImagesPrepended(item_data, cache, init, dirExists, fsys, external) ==
    IF external
    THEN {[files |-> <<>>, fetched |-> <<>>, total |-> 0, warned |-> FALSE,
           cache |-> cache, init |-> init, enumerated |-> FALSE, failed |-> FALSE]}
    ELSE LET refs == AssetRefs(item_data)
             start == [cache |-> cache, init |-> init, enumerated |-> FALSE,
                       failed |-> FALSE, files |-> <<>>]
             Rev(q) == [i \in 1..Len(q) |-> q[Len(q) + 1 - i]]
         IN  { [files |-> IF TotalSize(s.files) > MAX_TOTAL_SIZE
                          THEN Take(Rev(s.files), MaxFilesOverLimit) ELSE Rev(s.files),
                fetched |-> Rev(s.files),
                total |-> TotalSize(s.files),
                warned |-> (TotalSize(s.files) > MAX_TOTAL_SIZE),
                cache |-> s.cache, init |-> s.init,
                enumerated |-> s.enumerated, failed |-> s.failed]
               : s \in FetchRefs(refs, Len(refs), start, dirExists, fsys, external) }

\* under the external policy the files are looked up all the same
get_files_FetchWhenExternal(item_data, cache, init, dirExists, fsys, external) ==
    LET refs == AssetRefs(item_data)
        start == [cache |-> cache, init |-> init, enumerated |-> FALSE,
                  failed |-> FALSE, files |-> <<>>]
    IN  { [files |-> IF TotalSize(s.files) > MAX_TOTAL_SIZE
                     THEN Take(s.files, MaxFilesOverLimit) ELSE s.files,
           fetched |-> s.files,
           total |-> TotalSize(s.files),
           warned |-> (TotalSize(s.files) > MAX_TOTAL_SIZE),
           cache |-> s.cache, init |-> s.init,
           enumerated |-> s.enumerated, failed |-> s.failed]
          : s \in FetchRefs(refs, Len(refs), start, dirExists, fsys, FALSE) }

(* BaseSelectorDropdown.get_files.  `fetched` is the list before the size   *)
(* check, `files` the list returned, `warned` the warning of line 232.      *)
get_files(item_data, cache, init, dirExists, fsys, external) ==
    IF external
    THEN {[files |-> <<>>, fetched |-> <<>>, total |-> 0, warned |-> FALSE,
           cache |-> cache, init |-> init, enumerated |-> FALSE, failed |-> FALSE]}
    ELSE LET refs == AssetRefs(item_data)
             start == [cache |-> cache, init |-> init, enumerated |-> FALSE,
                       failed |-> FALSE, files |-> <<>>]
         IN  { [files |-> IF TotalSize(s.files) > MAX_TOTAL_SIZE
                          THEN Take(s.files, MaxFilesOverLimit) ELSE s.files,
                fetched |-> s.files,
                total |-> TotalSize(s.files),
                warned |-> (TotalSize(s.files) > MAX_TOTAL_SIZE),
                cache |-> s.cache, init |-> s.init,
                enumerated |-> s.enumerated, failed |-> s.failed]
               : s \in FetchRefs(refs, Len(refs), start, dirExists, fsys, external) }

\* the numbered field attributes of the model's items: field_1, field_2, ...
MaxFieldKeys == 27

FieldKey(i) == "field_" \o ToString(i)

\* f"{field_key}_inline", line 157
InlineKey(field_key) == field_key \o "_inline"

\* the inline hints the model's items hold
InlineKeys == {InlineKey("field_role"), InlineKey(FieldKey(1))}

\* the keys of the model's items that start with 'field_'
FieldKeys ==
    {"field_role"} \cup {FieldKey(i) : i \in 1..MaxFieldKeys} \cup InlineKeys

\* item_data.get(f"{field_key}_inline", False), line 157
InlineFlag(item_data, field_key) ==
    IF HasKey(item_data, InlineKey(field_key))
    THEN Lookup(item_data, InlineKey(field_key))
    ELSE JBool(FALSE)

\* field_key.startswith('field_'), line 147
IsFieldKey(key) == key \in FieldKeys

NoUrl == <<>>

\* the digits int(s, 16) accepts, in either case, with their values
HexDigits ==
    [c \in {"0","1","2","3","4","5","6","7","8","9","a","b","c","d","e","f",
            "A","B","C","D","E","F"} |->
        CASE c = "0" -> 0 [] c = "1" -> 1 [] c = "2" -> 2 [] c = "3" -> 3
          [] c = "4" -> 4 [] c = "5" -> 5 [] c = "6" -> 6 [] c = "7" -> 7
          [] c = "8" -> 8 [] c = "9" -> 9
          [] c \in {"a", "A"} -> 10 [] c \in {"b", "B"} -> 11
          [] c \in {"c", "C"} -> 12 [] c \in {"d", "D"} -> 13
          [] c \in {"e", "E"} -> 14 [] c \in {"f", "F"} -> 15]

IsHexDigit(c) == c \in DOMAIN HexDigits

HexDigitValue(c) == HexDigits[c]

RECURSIVE HexValue(_)
HexValue(digits) ==
    IF digits = <<>> THEN 0
    ELSE 16 * HexValue(SubSeq(digits, 1, Len(digits) - 1))
         + HexDigitValue(digits[Len(digits)])

\* the digits int(s, 16) reads: the text after an optional 0x / 0X (the
\* model's colour texts hold no sign, blank or underscore)
HexBody(s) ==
    IF Len(s) >= 2 /\ s[1] = "0" /\ s[2] \in {"x", "X"} THEN SubSeq(s, 3, Len(s))
    ELSE s

\* int(s, 16) raises ValueError
HexValueError(s) ==
    HexBody(s) = <<>> \/ \E i \in 1..Len(HexBody(s)) : ~IsHexDigit(HexBody(s)[i])

\* 0x5865F2, lines 135 and 141
DefaultColor == 5793266

DefaultColorText == <<"0","x","5","8","6","5","F","2">>

\* item_data.get('color', '0x5865F2')
ColorAttribute(item_data) ==
    IF HasKey(item_data, "color") THEN Lookup(item_data, "color")
    ELSE JStr(DefaultColorText)

\* lines 132-142 raise: int(x, 16) on a value that is no string is a
\* TypeError, and only ValueError is caught
ColorRaises(item_data) == ColorAttribute(item_data).tag # "str"

\* the colour of the embed, when the lines do not raise
EmbedColor(item_data) ==
    IF HexValueError(ColorAttribute(item_data).s) THEN DefaultColor
    ELSE HexValue(HexBody(ColorAttribute(item_data).s))

\* len(str(field_value)) > 1024, and [:1021], lines 151-152
MaxFieldValueLen == 1024
TruncatedValueLen == 1021

Ellipsis == <<".", ".", ".">>

\* lines 151-157: the value a field is added with
FieldValue(field_value) ==
    IF Len(Str(field_value)) > MaxFieldValueLen
    THEN SubSeq(Str(field_value), 1, TruncatedValueLen) \o Ellipsis
    ELSE Str(field_value)

\* the value is cut at 1024 characters and the marker appended after it
create_embed_EllipsisAfterLimit(item_data, include_thumbnails, external, base) ==
    LET keys == Take(SelectSeq(Keys(item_data), IsFieldKey), MaxEmbedFields)
    IN  [raised |-> ColorRaises(item_data),
         color |-> IF ColorRaises(item_data) THEN DefaultColor
                   ELSE EmbedColor(item_data),
         fields |-> keys,
         values |-> [i \in 1..Len(keys) |->
                       LET v == Str(Lookup(item_data, keys[i]))
                       IN  IF Len(v) > MaxFieldValueLen
                           THEN SubSeq(v, 1, MaxFieldValueLen) \o Ellipsis ELSE v],
         inlines |-> [i \in 1..Len(keys) |-> InlineFlag(item_data, keys[i])],
         thumbnail |->
            IF include_thumbnails /\ HasKey(item_data, "thumbnail")
            THEN LET thumbnail_path == StripAttachment(Lookup(item_data, "thumbnail").s)
                 IN  IF external THEN get_asset_url(external, base, thumbnail_path)
                     ELSE AttachmentPrefix \o thumbnail_path
            ELSE NoUrl]

\* the cap counts the attributes seen, not the fields added: the fields
\* among the item's first 25 attributes are rendered
create_embed_CapOnAttributes(item_data, include_thumbnails, external, base) ==
    LET keys == SelectSeq(Take(Keys(item_data), MaxEmbedFields), IsFieldKey)
    IN  [raised |-> ColorRaises(item_data),
         color |-> IF ColorRaises(item_data) THEN DefaultColor
                   ELSE EmbedColor(item_data),
         fields |-> keys,
         values |-> [i \in 1..Len(keys) |-> FieldValue(Lookup(item_data, keys[i]))],
         inlines |-> [i \in 1..Len(keys) |-> InlineFlag(item_data, keys[i])],
         thumbnail |->
            IF include_thumbnails /\ HasKey(item_data, "thumbnail")
            THEN LET thumbnail_path == StripAttachment(Lookup(item_data, "thumbnail").s)
                 IN  IF external THEN get_asset_url(external, base, thumbnail_path)
                     ELSE AttachmentPrefix \o thumbnail_path
            ELSE NoUrl]

\* BaseSelectorDropdown.create_embed: whether it raises, and else the colour,
\* the display fields (at most 25, in the item's order) with their values,
\* and the thumbnail reference
create_embed(item_data, include_thumbnails, external, base) ==
    LET keys == Take(SelectSeq(Keys(item_data), IsFieldKey), MaxEmbedFields)
    IN  [raised |-> ColorRaises(item_data),
         color |-> IF ColorRaises(item_data) THEN DefaultColor
                   ELSE EmbedColor(item_data),
         fields |-> keys,
         values |-> [i \in 1..Len(keys) |-> FieldValue(Lookup(item_data, keys[i]))],
         inlines |-> [i \in 1..Len(keys) |-> InlineFlag(item_data, keys[i])],
         thumbnail |->
            IF include_thumbnails /\ HasKey(item_data, "thumbnail")
            THEN LET thumbnail_path == StripAttachment(Lookup(item_data, "thumbnail").s)
                 IN  IF external THEN get_asset_url(external, base, thumbnail_path)
                     ELSE AttachmentPrefix \o thumbnail_path
            ELSE NoUrl]

----------------------------------------------------------------------------
(* cogs/base_selector.py: the flow *)

FlowAt(state, category, faction, options, reply) ==
    [state |-> state, category |-> category, faction |-> faction,
     options |-> options, reply |-> reply]

FlowStart == FlowAt("Start", "", None, <<>>, "none")

\* a view: its class, whether its children are disabled, whether it has
\* stopped taking interactions (discord.ui.View.is_finished), and the map
\* its buttons were made for
ViewOf(cls) ==
    [cls |-> cls, disabled |-> FALSE, finished |-> FALSE,
     map_key |-> "", map_info |-> JNull]

NoView == ViewOf("none")

SelEvent(op, category, key, faction, factions, data, items, result) ==
    [op |-> op, category |-> category, key |-> key, faction |-> faction,
     factions |-> factions, data |-> data, items |-> items, result |-> result]

SelStart == SelEvent("start", "", "", None, <<>>, JNull, JNull, JNull)

NoEmbed == [raised |-> FALSE, color |-> DefaultColor, fields |-> <<>>,
            values |-> <<>>, inlines |-> <<>>, thumbnail |-> NoUrl]

\* the record of a render: the item, what get_files fetched and returned,
\* the reply, and the document and attachments that were delivered with it
RenderEvent(key, item_data, o, embed, reply, doc, attachments) ==
    [key |-> key, item |-> item_data, embed |-> embed,
     fetched |-> o.fetched, files |-> o.files, total |-> o.total,
     warned |-> o.warned, reply |-> reply, doc |-> doc, attachments |-> attachments]

NoRender ==
    [key |-> "", item |-> JNull, embed |-> NoEmbed,
     fetched |-> <<>>, files |-> <<>>, total |-> 0,
     warned |-> FALSE, reply |-> "none", doc |-> NoEmbed, attachments |-> <<>>]

\* what a send on an interaction can do: deliver, raise
\* RequestEntityTooLarge, raise another error
SendOutcomes == {"ok", "too_large", "error"}

\* a message sent on an interaction: interaction.response.send_message or
\* interaction.followup.send, and what became of it
Response(outcome) == [channel |-> "response", outcome |-> outcome]
Followup(outcome) == [channel |-> "followup", outcome |-> outcome]

NoSends == <<>>

\* interaction.response.is_done(): an initial response was delivered
is_done(sends) == \E i \in 1..Len(sends) : sends[i] = Response("ok")

\* a handler whose body is one try block with a response in its except
\* branch (generic_command lines 322-360, Maps.maps lines 447-486,
\* PersistentMapDropdown.callback lines 271-316, PersonalVariantButton.callback
\* lines 39-116): `raised` says that the body raised before its send
TrySends(raised, send1, send2) ==
    IF raised THEN <<Response(send2)>>
    ELSE IF send1 = "ok" THEN <<Response(send1)>>
    ELSE <<Response(send1), Response(send2)>>

\* the reply of such a handler when its own message was not delivered
ExceptReply(send2) == IF send2 = "ok" THEN "error_message" ELSE "nothing"

\* BaseSelectorDropdown._send_error_message (lines 114-128)
send_error_message(sends, outcome) ==
    sends \o << IF ~is_done(sends) THEN Response(outcome) ELSE Followup(outcome) >>

\* GenericSelector.create_command.generic_command
\* send1 is the outcome of the handler's message, send2 that of the message
\* of its except branch
generic_command(category, send1, send2) ==
    LET ld == load_data(dm_cache, disk, category)
        factions == get_factions(dm_cache, disk, category)
        items == get_items(ld.cache, disk, category, None)
    IN  /\ dm_cache' = load_data(ld.cache, disk, category).cache
        /\ flow' = IF send1 # "ok"
                   THEN FlowAt("End", category, None, <<>>, ExceptReply(send2))
                   ELSE IF Len(factions) <= 1
                   THEN IF ~Truthy(items)
                        THEN FlowAt("End", category, None, <<>>, "no_data")
                        ELSE FlowAt("ItemPending", category, None,
                                    BaseSelectorDropdown_options(items), "item_view")
                   ELSE FlowAt("FactionPending", category, None, factions,
                               "faction_view")
        /\ view' = IF send1 # "ok" THEN NoView
                   ELSE IF Len(factions) <= 1
                   THEN IF ~Truthy(items) THEN NoView ELSE ViewOf("BaseSelectorView")
                   ELSE ViewOf("View")
        /\ interaction' = TrySends(FALSE, send1, send2)
        /\ lastSel' = SelEvent("command", category, "", None, factions, ld.data,
                               items, JNull)
        /\ lastRender' = NoRender
        /\ UNCHANGED <<disk, assetVars, lastUrl>>

\* FactionSelectorDropdown.callback
\* (lines 270-286: no try block; BaseSelectorView raises for items that are
\* no mapping, before anything is sent)
FactionSelectorDropdown_callback(selected_faction, send1) ==
    /\ flow.state = "FactionPending"
    /\ \E i \in 1..Len(flow.options) : flow.options[i] = selected_faction
    /\ LET ld == load_data(dm_cache, disk, flow.category)
           items == get_items(dm_cache, disk, flow.category, selected_faction)
           raises == Truthy(items) /\ items.tag # "obj"
       IN  /\ dm_cache' = ld.cache
           /\ flow' = IF raises
                      THEN FlowAt("End", flow.category, selected_faction, <<>>,
                                  "unhandled_exception")
                      ELSE IF send1 # "ok"
                      THEN FlowAt("End", flow.category, selected_faction, <<>>,
                                  "nothing")
                      ELSE IF ~Truthy(items)
                      THEN FlowAt("End", flow.category, selected_faction, <<>>,
                                  "no_items_for_faction")
                      ELSE FlowAt("ItemPending", flow.category, selected_faction,
                                  BaseSelectorDropdown_options(items), "item_view")
           /\ view' = IF Truthy(items) /\ ~raises /\ send1 = "ok"
                      THEN ViewOf("BaseSelectorView") ELSE view
           /\ interaction' = IF raises THEN NoSends ELSE <<Response(send1)>>
           /\ lastSel' = SelEvent("faction_pick", flow.category, "", selected_faction,
                                  Keys(ld.data), ld.data, items, JNull)
    /\ lastRender' = NoRender
    /\ UNCHANGED <<disk, assetVars, lastUrl>>

\* BaseSelectorDropdown.callback, lines 84-112: the reply that is delivered
\* for a resolved item. Rendering a value that is no dict raises in
\* create_embed; send1 and send2 are the outcomes of the first send and of
\* the send without attachments.
RenderReply(item_data, send1, send2, send3) ==
    LET error == IF send3 = "ok" THEN "error_message" ELSE "nothing"
    IN  IF item_data.tag # "obj" THEN error
        ELSE IF ColorRaises(item_data) THEN error
        ELSE IF send1 = "ok" THEN "item"
        ELSE IF send1 = "too_large"
        THEN IF send2 = "ok" THEN "item_without_attachments" ELSE error
        ELSE error

\* the error message is sent when the handler ends, whatever came before
BaseSelectorDropdown_sends_ErrorAlways(selected_key, item_data, send1, send2, send3) ==
    IF selected_key = "none" THEN <<Response(send1)>>
    ELSE IF item_data = Raised THEN NoSends
    ELSE IF ~Truthy(item_data) THEN <<Response(send1)>>
    ELSE IF item_data.tag # "obj" \/ ColorRaises(item_data)
    THEN <<Response(send3)>>
    ELSE IF send1 = "too_large"
    THEN <<Response(send1), Response(send2), Response(send3)>>
    ELSE <<Response(send1), Response(send3)>>

\* BaseSelectorDropdown.callback: the messages it sends.  Lines 64-80 send
\* outside the try block; in it the render is sent (line 90), after
\* RequestEntityTooLarge the render without attachments (line 101), and
\* after any other failure the error message; send3 is the outcome of the
\* error message.
BaseSelectorDropdown_sends(selected_key, item_data, send1, send2, send3) ==
    IF selected_key = "none" THEN <<Response(send1)>>
    ELSE IF item_data = Raised THEN NoSends
    ELSE IF ~Truthy(item_data) THEN <<Response(send1)>>
    ELSE IF item_data.tag # "obj" \/ ColorRaises(item_data)
    THEN send_error_message(NoSends, send3)
    ELSE IF send1 = "ok" THEN <<Response(send1)>>
    ELSE IF send1 = "too_large"
    THEN IF send2 = "ok" THEN <<Response(send1), Response(send2)>>
         ELSE send_error_message(<<Response(send1), Response(send2)>>, send3)
    ELSE send_error_message(<<Response(send1)>>, send3)

\* BaseSelectorDropdown.callback
BaseSelectorDropdown_callback(selected_key, send1, send2, send3) ==
    /\ flow.state = "ItemPending"
    /\ \E i \in 1..Len(flow.options) : flow.options[i] = selected_key
    /\ LET ld == load_data(dm_cache, disk, flow.category)
           items == get_items(dm_cache, disk, flow.category, flow.faction)
           item_data == get_item(dm_cache, disk, flow.category, selected_key,
                                 flow.faction)
           reply == IF selected_key = "none"
                    THEN IF send1 = "ok" THEN "no_content" ELSE "nothing"
                    ELSE IF item_data = Raised THEN "unhandled_exception"
                    ELSE IF ~Truthy(item_data)
                    THEN IF send1 = "ok" THEN "not_found" ELSE "nothing"
                    ELSE RenderReply(item_data, send1, send2, send3)
           \* lines 85-86 are reached and create_embed does not raise
           renders == /\ selected_key # "none"
                      /\ item_data # Raised
                      /\ Truthy(item_data)
                      /\ item_data.tag = "obj"
                      /\ ~ColorRaises(item_data)
       IN  /\ dm_cache' = IF selected_key = "none" THEN dm_cache ELSE ld.cache
           /\ flow' = FlowAt("End", flow.category, flow.faction, <<>>, reply)
           /\ interaction' = BaseSelectorDropdown_sends(selected_key, item_data,
                                                        send1, send2, send3)
           /\ lastSel' = SelEvent("item_pick", flow.category, selected_key,
                                  flow.faction, Keys(ld.data), ld.data, items,
                                  IF selected_key = "none" THEN JNull ELSE item_data)
           /\ IF renders
              THEN \E o \in get_files(item_data, asset_cache, cache_initialized,
                                      assets_dir_exists, fs, USE_EXTERNAL_ASSETS) :
                     LET embed == create_embed(item_data, TRUE, USE_EXTERNAL_ASSETS,
                                               EXTERNAL_ASSET_BASE_URL)
                         plain == create_embed(item_data, FALSE, USE_EXTERNAL_ASSETS,
                                               EXTERNAL_ASSET_BASE_URL)
                     IN  /\ asset_cache' = o.cache
                         /\ cache_initialized' = o.init
                         /\ buildReturned' =
                              (buildReturned
                                 \/ (~USE_EXTERNAL_ASSETS /\ AssetRefs(item_data) # <<>>))
                         /\ enumSinceRefresh' = IF o.enumerated THEN Bump(enumSinceRefresh)
                                                ELSE enumSinceRefresh
                         /\ lastCall' = Event("render", NoName, o, "na", "na")
                         /\ lastRender' =
                              RenderEvent(selected_key, item_data, o, embed, reply,
                                  IF reply = "item" THEN embed
                                  ELSE IF reply = "item_without_attachments" THEN plain
                                  ELSE NoEmbed,
                                  IF reply = "item" THEN o.files ELSE <<>>)
                         /\ UNCHANGED <<fs, assets_dir_exists, USE_EXTERNAL_ASSETS,
                                        EXTERNAL_ASSET_BASE_URL, lastUrl>>
              ELSE IF selected_key # "none" /\ item_data.tag = "obj"
                      /\ Truthy(item_data)
              \* create_embed raised at line 85: get_files is not reached
              THEN /\ lastRender' =
                        RenderEvent(selected_key, item_data,
                            [fetched |-> <<>>, files |-> <<>>, total |-> 0,
                             warned |-> FALSE],
                            create_embed(item_data, TRUE, USE_EXTERNAL_ASSETS,
                                         EXTERNAL_ASSET_BASE_URL),
                            reply, NoEmbed, <<>>)
                   /\ lastCall' = EnvEvent("render_raised", NoName)
                   /\ UNCHANGED <<fs, assets_dir_exists, USE_EXTERNAL_ASSETS,
                                  EXTERNAL_ASSET_BASE_URL, asset_cache,
                                  cache_initialized, buildReturned,
                                  enumSinceRefresh, lastUrl>>
              ELSE /\ lastRender' = NoRender
                   /\ UNCHANGED <<assetVars, lastUrl>>
    /\ UNCHANGED <<disk, view>>

\* resolveUrl: a call of Settings.get_asset_url
ResolveUrl(name) ==
    /\ lastUrl' = [op |-> "url", name |-> name,
                   url |-> get_asset_url(USE_EXTERNAL_ASSETS, EXTERNAL_ASSET_BASE_URL,
                                         name)]
    /\ UNCHANGED <<assetVars, selVars, lastRender>>

NoUrlCall == [op |-> "start", name |-> NoName, url |-> NoUrl]

\* resolveItem: a direct call of data_manager.get_item
ResolveItem(category, item_key, faction) ==
    LET ld == load_data(dm_cache, disk, category)
    IN  /\ dm_cache' = ld.cache
        /\ lastSel' = SelEvent("get_item", category, item_key, faction,
                               Keys(ld.data), ld.data,
                               get_items(dm_cache, disk, category, faction),
                               get_item(dm_cache, disk, category, item_key, faction))
        /\ lastRender' = NoRender
        /\ interaction' = NoSends
        /\ UNCHANGED <<disk, flow, view, assetVars, lastUrl>>

----------------------------------------------------------------------------
(* cogs/maps_command.py *)

\* the map keys of the model, as the characters the code takes them apart to
MapKeyChars ==
    [sme |-> <<"s","m","e">>, foy |-> <<"f","o","y">>, bad |-> <<"b","a","d">>]

\* the entries of MAP_NAME_FIXES (lines 12-19) for 'sme' and 'phl'
MAP_NAME_FIXES == [sme |-> <<"S","M","E">>, phl |-> <<"P","H","L">>]

IsLetter(c) ==
    \E i \in 1..Len(UpperChars) : UpperChars[i] = c \/ LowerChars[i] = c

\* str.upper() on one character
UpperChar(c) ==
    IF \E i \in 1..Len(LowerChars) : LowerChars[i] = c
    THEN UpperChars[CHOOSE i \in 1..Len(LowerChars) : LowerChars[i] = c]
    ELSE c

\* str.title(): a letter is upper case at the start and after a character
\* that is no letter, and lower case elsewhere
Title(s) ==
    [i \in 1..Len(s) |->
        IF i = 1 \/ ~IsLetter(s[i - 1]) THEN UpperChar(s[i]) ELSE LowerChar(s[i])]

\* MAP_NAME_FIXES.get(map_key, map_key.title())
ActualMapName(map_key) ==
    IF map_key \in DOMAIN MAP_NAME_FIXES THEN MAP_NAME_FIXES[map_key]
    ELSE Title(MapKeyChars[map_key])

\* the suffixes of the variants dictionary (lines 151-156), in its order
VariantSuffixes == <<"Grid", "NoGrid", "SP_NoHQ", "defaultgarries">>

SuffixChars ==
    [Grid |-> <<"G","r","i","d">>,
     NoGrid |-> <<"N","o","G","r","i","d">>,
     SP_NoHQ |-> <<"S","P","_","N","o","H","Q">>,
     defaultgarries |-> <<"d","e","f","a","u","l","t","g","a","r","r","i","e","s">>]

\* f"{actual_map_name}_{suffix}.png"
ImageFilename(map_key, suffix) ==
    ActualMapName(map_key) \o <<"_">> \o SuffixChars[suffix] \o <<".","p","n","g">>

\* the four briefing attributes of create_map_embed, in its order
BriefingKeys == <<"terrain", "points", "infantry", "armor">>

\* the texts shown for a briefing attribute the map does not have
BriefingDefaults ==
    [terrain |-> <<"N", "o", " ", "t", "e", "r", "r", "a", "i", "n", " ", "i",
                  "n", "f", "o", " ", "a", "v", "a", "i", "l", "a", "b", "l",
                  "e">>,
     points |-> <<"N", "o", " ", "k", "e", "y", " ", "p", "o", "i", "n", "t",
                 "s", " ", "i", "n", "f", "o", " ", "a", "v", "a", "i", "l",
                 "a", "b", "l", "e">>,
     infantry |-> <<"N", "o", " ", "i", "n", "f", "a", "n", "t", "r", "y",
                   " ", "s", "t", "r", "a", "t", "e", "g", "y", " ", "a",
                   "v", "a", "i", "l", "a", "b", "l", "e">>,
     armor |-> <<"N", "o", " ", "a", "r", "m", "o", "r", " ", "s", "t", "r",
                "a", "t", "e", "g", "y", " ", "a", "v", "a", "i", "l", "a",
                "b", "l", "e">>]

\* map_info.get(key, default)
BriefingAttribute(map_info, key) ==
    IF HasKey(map_info, key) THEN Lookup(map_info, key) ELSE JStr(BriefingDefaults[key])

\* create_map_embed raises: .get on a record that is no dict, or len() of a
\* briefing attribute that is a number or null
MapEmbedRaises(map_info) ==
    \/ map_info.tag # "obj"
    \/ \E i \in 1..Len(BriefingKeys) :
          BriefingAttribute(map_info, BriefingKeys[i]).tag # "str"

\* PersonalVariantButton.create_map_embed (lines 118-142): whether it raises,
\* and else the colour and the four briefing fields with their values; no
\* image is set yet
create_map_embed(map_info) ==
    [raised |-> MapEmbedRaises(map_info),
     color |-> DefaultColor,
     fields |-> IF MapEmbedRaises(map_info) THEN <<>> ELSE BriefingKeys,
     values |-> IF MapEmbedRaises(map_info) THEN <<>>
                ELSE [i \in 1..Len(BriefingKeys) |->
                        LET value == BriefingAttribute(map_info, BriefingKeys[i]).s
                        IN  IF Len(value) > MaxFieldValueLen
                            THEN SubSeq(value, 1, TruncatedValueLen) \o Ellipsis
                            ELSE value],
     image |-> NoUrl]

\* embed.add_field(name, value)
AddField(embed, name, value) ==
    [embed EXCEPT !.fields = Append(@, name), !.values = Append(@, value)]

\* f"Map image '{image_filename}' could not be loaded.", line 75 (the
\* quotation marks around the name are backticks in the source)
ImageNotAvailableText(image_filename) ==
    <<"M", "a", "p", " ", "i", "m", "a", "g", "e", " ", "'">>
    \o image_filename \o
    <<"'", " ", "c", "o", "u", "l", "d", " ", "n", "o", "t", " ", "b", "e",
      " ", "l", "o", "a", "d", "e", "d", ".">>

\* the value of the field of lines 85-89
ImageTooLargeText ==
    <<"T", "h", "e", " ", "m", "a", "p", " ", "i", "m", "a", "g", "e", " ",
      "i", "s", " ", "t", "o", "o", " ", "l", "a", "r", "g", "e", " ", "t",
      "o", " ", "d", "i", "s", "p", "l", "a", "y", ".", " ", "T", "r", "y",
      " ", "t", "h", "e", " ", "e", "x", "t", "e", "r", "n", "a", "l", " ",
      "a", "s", "s", "e", "t", "s", " ", "o", "p", "t", "i", "o", "n", ".">>

\* the literal of line 82
TooLargeNeedle ==
    <<"R", "e", "q", "u", "e", "s", "t", " ", "e", "n", "t", "i", "t", "y",
      " ", "t", "o", "o", " ", "l", "a", "r", "g", "e">>

\* str(e) of the HTTPException of a refused upload: status, reason, error
\* code and text
TooLargeErrorText ==
    <<"4", "1", "3", " ", "P", "a", "y", "l", "o", "a", "d", " ", "T", "o",
      "o", " ", "L", "a", "r", "g", "e", " ", "(", "e", "r", "r", "o", "r",
      " ", "c", "o", "d", "e", ":", " ", "4", "0", "0", "0", "5", ")", ":",
      " ", "R", "e", "q", "u", "e", "s", "t", " ", "e", "n", "t", "i", "t",
      "y", " ", "t", "o", "o", " ", "l", "a", "r", "g", "e">>

\* needle in hay
IsSubstring(needle, hay) ==
    \E i \in 0..(Len(hay) - Len(needle)) : SubSeq(hay, i + 1, i + Len(needle)) = needle

\* line 82: "Request entity too large" in str(e).lower()
IsTooLargeError(text) == IsSubstring(TooLargeNeedle, Lower(text))

\* PersonalVariantView.check_available_variants (lines 168-182): every state
\* the look-ups of the four file names can end in; `files` holds the
\* variants found, by their position in VariantSuffixes
check_available_variants(map_key, cache, init, dirExists, fsys, external) ==
    LET refs == [i \in 1..Len(VariantSuffixes) |->
                    [name |-> ImageFilename(map_key, VariantSuffixes[i]), ref |-> i]]
        start == [cache |-> cache, init |-> init, enumerated |-> FALSE,
                  failed |-> FALSE, files |-> <<>>]
    IN  IF external
        THEN {[start EXCEPT !.files = refs]}
        ELSE FetchRefs(refs, Len(refs), start, dirExists, fsys, external)

\* PersonalVariantView.__init__, lines 159-166: the suffixes of the buttons
PersonalVariantView_buttons(available) ==
    IF available = <<>> THEN VariantSuffixes
    ELSE [i \in 1..Len(available) |-> VariantSuffixes[available[i].ref]]

\* PersistentMapDropdown.__init__ raises on a record that is no dict
\* (map_info.get, line 207) or whose terrain is no string (len, line 208)
MapOptionRaises(map_info) ==
    \/ map_info.tag # "obj"
    \/ HasKey(map_info, "terrain") /\ Lookup(map_info, "terrain").tag # "str"

\* PersistentMapDropdown.__init__ (lines 192-236): whether it raises, and
\* else the option values
PersistentMapDropdown_options(maps_data) ==
    IF ~Truthy(maps_data) THEN [raised |-> FALSE, options |-> <<"none">>]
    ELSE IF \E i \in 1..Len(maps_data.kv) : MapOptionRaises(maps_data.kv[i][2])
    THEN [raised |-> TRUE, options |-> <<>>]
    ELSE [raised |-> FALSE, options |-> Keys(maps_data)]

\* Maps.maps (lines 443-486)
maps_command(send1, send2) ==
    LET ld == load_data(dm_cache, disk, "maps")
        maps_data == ld.data
        dropdown == PersistentMapDropdown_options(load_data(ld.cache, disk, "maps").data)
        raised == Truthy(maps_data) /\ dropdown.raised
    IN  /\ dm_cache' = ld.cache
        /\ flow' = IF raised \/ send1 # "ok"
                   THEN FlowAt("End", "maps", None, <<>>, ExceptReply(send2))
                   ELSE IF ~Truthy(maps_data)
                   THEN FlowAt("End", "maps", None, <<>>, "no_data")
                   ELSE FlowAt("MapPending", "maps", None, dropdown.options, "map_view")
        /\ view' = IF Truthy(maps_data) /\ ~raised /\ send1 = "ok" THEN ViewOf("View")
                   ELSE NoView
        /\ interaction' = TrySends(raised, send1, send2)
        /\ lastSel' = SelEvent("maps_command", "maps", "", None, Keys(maps_data),
                               maps_data, maps_data, JNull)
        /\ lastRender' = NoRender
        /\ UNCHANGED <<disk, assetVars, lastUrl>>

\* lines 284-289 raise: the record is no dict, or its terrain is a number
MapPreviewRaises(map_info) ==
    \/ map_info.tag # "obj"
    \/ /\ HasKey(map_info, "terrain")
       /\ Truthy(Lookup(map_info, "terrain"))
       /\ Lookup(map_info, "terrain").tag # "str"

\* PersistentMapDropdown.callback (lines 249-316)
\* (the messages of lines 253-268 are sent outside the try block)
PersistentMapDropdown_callback(selected, send1, send2) ==
    /\ flow.state = "MapPending"
    /\ \E i \in 1..Len(flow.options) : flow.options[i] = selected
    /\ LET ld == load_data(dm_cache, disk, "maps")
           maps_data == ld.data
           map_info == IF HasKey(maps_data, selected) THEN Lookup(maps_data, selected)
                       ELSE JNull
       IN  /\ dm_cache' = ld.cache
           /\ lastSel' = SelEvent("map_pick", "maps", selected, None, Keys(maps_data),
                                  maps_data, maps_data, map_info)
           /\ lastRender' = NoRender
           /\ IF selected = "none" \/ ~Truthy(maps_data)
              THEN /\ flow' = FlowAt("End", "maps", None, <<>>,
                                     IF send1 = "ok" THEN "no_data" ELSE "nothing")
                   /\ interaction' = <<Response(send1)>>
                   /\ UNCHANGED <<view, assetVars>>
              ELSE IF ~Truthy(map_info)
              THEN /\ flow' = FlowAt("End", "maps", None, <<>>,
                                     IF send1 = "ok" THEN "not_found" ELSE "nothing")
                   /\ interaction' = <<Response(send1)>>
                   /\ UNCHANGED <<view, assetVars>>
              ELSE \E s \in check_available_variants(selected, asset_cache,
                                cache_initialized, assets_dir_exists, fs,
                                USE_EXTERNAL_ASSETS) :
                     /\ flow' = IF MapPreviewRaises(map_info) \/ send1 # "ok"
                                THEN FlowAt("End", "maps", None, <<>>,
                                            ExceptReply(send2))
                                ELSE FlowAt("VariantPending", "maps", None,
                                            PersonalVariantView_buttons(s.files),
                                            "variant_view")
                     /\ interaction' = TrySends(MapPreviewRaises(map_info), send1, send2)
                     /\ view' = IF MapPreviewRaises(map_info) \/ send1 # "ok" THEN view
                                ELSE [ViewOf("PersonalVariantView")
                                        EXCEPT !.map_key = selected,
                                               !.map_info = map_info]
                     /\ asset_cache' = s.cache
                     /\ cache_initialized' = s.init
                     /\ buildReturned' = (buildReturned \/ ~USE_EXTERNAL_ASSETS)
                     /\ enumSinceRefresh' = IF s.enumerated THEN Bump(enumSinceRefresh)
                                            ELSE enumSinceRefresh
                     /\ lastCall' = Event("variants", NoName, s, "na", "na")
                     /\ UNCHANGED <<fs, assets_dir_exists, USE_EXTERNAL_ASSETS,
                                    EXTERNAL_ASSET_BASE_URL>>
    /\ UNCHANGED <<disk, lastUrl>>

\* PersonalVariantButton.callback, lines 81-116: the reply after the first
\* send; send2 is the outcome of the send in the handler
VariantReply(has_image, send1, send2) ==
    IF send1 = "ok" THEN IF has_image THEN "map" ELSE "map_without_image"
    ELSE IF send1 = "too_large" /\ IsTooLargeError(TooLargeErrorText)
    THEN IF send2 = "ok" THEN "map_too_large" ELSE "nothing"
    ELSE IF send2 = "ok" THEN "error_embed" ELSE "nothing"

\* PersonalVariantButton.callback (lines 38-116)
PersonalVariantButton_callback(suffix, send1, send2) ==
    /\ flow.state = "VariantPending"
    /\ \E i \in 1..Len(flow.options) : flow.options[i] = suffix
    /\ LET map_key == view.map_key
           map_info == view.map_info
           image_filename == ImageFilename(map_key, suffix)
           embed == create_map_embed(map_info)
       IN  /\ lastSel' = SelEvent("variant_pick", "maps", map_key, None, <<>>,
                                  JNull, JNull, map_info)
           /\ interaction' = TrySends(embed.raised, send1, send2)
           /\ IF embed.raised
              THEN LET reply == IF send2 = "ok" THEN "error_embed" ELSE "nothing"
                   IN  /\ flow' = FlowAt("End", "maps", None, <<>>, reply)
                       /\ lastRender' =
                            RenderEvent(map_key, map_info,
                                [fetched |-> <<>>, files |-> <<>>, total |-> 0,
                                 warned |-> FALSE],
                                embed, reply, NoEmbed, <<>>)
                       /\ lastCall' = EnvEvent("map_render_raised", NoName)
                       /\ UNCHANGED <<fs, assets_dir_exists, USE_EXTERNAL_ASSETS,
                                      EXTERNAL_ASSET_BASE_URL, asset_cache,
                                      cache_initialized, buildReturned,
                                      enumSinceRefresh>>
              ELSE \E o \in get_asset_file(asset_cache, cache_initialized,
                                           assets_dir_exists, fs, USE_EXTERNAL_ASSETS,
                                           image_filename) :
                     LET found == ~USE_EXTERNAL_ASSETS /\ o.result = "file"
                         files == IF found
                                  THEN << [name |-> image_filename, ref |-> 0,
                                           size |-> FileSize(image_filename)] >>
                                  ELSE <<>>
                         first == IF USE_EXTERNAL_ASSETS
                                  THEN [embed EXCEPT !.image =
                                          get_asset_url(USE_EXTERNAL_ASSETS,
                                              EXTERNAL_ASSET_BASE_URL, image_filename)]
                                  ELSE IF found
                                  THEN [embed EXCEPT !.image =
                                          AttachmentPrefix \o image_filename]
                                  ELSE AddField(embed, "image_not_available",
                                                ImageNotAvailableText(image_filename))
                         fallback == AddField(create_map_embed(map_info),
                                              "image_too_large", ImageTooLargeText)
                         reply == VariantReply(first.image # NoUrl, send1, send2)
                     IN  /\ flow' = FlowAt("End", "maps", None, <<>>, reply)
                         /\ lastRender' =
                              RenderEvent(map_key, map_info,
                                  [fetched |-> files, files |-> files,
                                   total |-> TotalSize(files), warned |-> FALSE],
                                  first, reply,
                                  IF reply \in {"map", "map_without_image"} THEN first
                                  ELSE IF reply = "map_too_large" THEN fallback
                                  ELSE NoEmbed,
                                  IF reply = "map" THEN files ELSE <<>>)
                         /\ asset_cache' = o.cache
                         /\ cache_initialized' = o.init
                         /\ buildReturned' = (buildReturned \/ ~USE_EXTERNAL_ASSETS)
                         /\ enumSinceRefresh' = IF o.enumerated
                                                THEN Bump(enumSinceRefresh)
                                                ELSE enumSinceRefresh
                         /\ lastCall' = Event("map_render", image_filename, o, o.how,
                                              o.result)
                         /\ UNCHANGED <<fs, assets_dir_exists, USE_EXTERNAL_ASSETS,
                                        EXTERNAL_ASSET_BASE_URL>>
    /\ UNCHANGED <<disk, dm_cache, view, lastUrl>>

\* the states of a flow in which a widget is shown and awaits the user
PendingStates == {"FactionPending", "ItemPending", "MapPending", "VariantPending"}

\* on_timeout of the view's class: BaseSelectorView (base_selector.py lines
\* 300-303) and PersonalVariantView (maps_command.py lines 184-187) disable
\* their children; the faction view and the view of the maps command are
\* plain discord.ui.View objects, whose on_timeout does nothing
on_timeout(v) ==
    IF v.cls \in {"BaseSelectorView", "PersonalVariantView"}
    THEN [v EXCEPT !.disabled = TRUE]
    ELSE v

\* the 300 seconds of a view pass without an interaction: the library calls
\* on_timeout and stops the view
Timeout ==
    /\ flow.state \in PendingStates
    /\ view' = [on_timeout(view) EXCEPT !.finished = TRUE]
    /\ flow' = [flow EXCEPT !.state = "End", !.options = <<>>]
    /\ lastSel' = SelEvent("timeout", flow.category, "", flow.faction, <<>>,
                           JNull, JNull, JNull)
    /\ interaction' = NoSends
    /\ lastRender' = NoRender
    /\ UNCHANGED <<disk, dm_cache, assetVars, lastUrl>>

AssetStart ==
    /\ assets_dir_exists = TRUE
    /\ fs = [n \in Names |-> "file"]
    /\ USE_EXTERNAL_ASSETS = FALSE
    /\ asset_cache = EmptyCache
    /\ cache_initialized = FALSE
    /\ buildReturned = FALSE
    /\ enumSinceRefresh = 0
    /\ lastCall = EnvEvent("start", NoName)
    /\ EXTERNAL_ASSET_BASE_URL = <<>>
    /\ lastUrl = NoUrlCall
    /\ lastRender = NoRender

Init ==
    /\ disk \in [Categories -> Contents]
    /\ dm_cache = [c \in Categories |-> NotCached]
    /\ flow = FlowStart
    /\ view = NoView
    /\ interaction = NoSends
    /\ lastSel = SelStart
    /\ AssetStart

Next ==
    \/ \E c \in Categories : generic_command(c, "ok", "ok")
    \/ \E f \in OptionValues : FactionSelectorDropdown_callback(f, "ok")
    \/ \E k \in OptionValues, send1 \in SendOutcomes, send2 \in SendOutcomes :
          BaseSelectorDropdown_callback(k, send1, send2, "ok")
    \/ \E c \in Categories, k \in KeyInputs, f \in FactionInputs : ResolveItem(c, k, f)

Spec == Init /\ [][Next]_vars

AssetInit ==
    /\ assets_dir_exists \in BOOLEAN
    /\ fs \in [Names -> Kinds]
    /\ (~assets_dir_exists => fs = [n \in Names |-> "absent"])
    /\ USE_EXTERNAL_ASSETS \in BOOLEAN
    /\ asset_cache = EmptyCache
    /\ cache_initialized = FALSE
    /\ buildReturned = FALSE
    /\ enumSinceRefresh = 0
    /\ lastCall = EnvEvent("start", NoName)
    /\ disk = [c \in Categories |-> FileMissing]
    /\ dm_cache = [c \in Categories |-> NotCached]
    /\ flow = FlowStart
    /\ view = NoView
    /\ interaction = NoSends
    /\ lastSel = SelStart
    /\ EXTERNAL_ASSET_BASE_URL = <<>>
    /\ lastUrl = NoUrlCall
    /\ lastRender = NoRender

AssetNext ==
    \/ BuildCache
    \/ \E n \in Names : FetchLocal(n)
    \/ Refresh
    \/ \E n \in Names, k \in Kinds : FsCreate(n, k)
    \/ \E n \in Names : FsDelete(n)
    \/ RemoveAssetsDir
    \/ CreateAssetsDir

AssetSpec == AssetInit /\ [][AssetNext]_vars

(* Rendering.  One category whose single item carries image references;    *)
(* the files are all there, or one is missing, or one is a directory.       *)

GalleryDisks ==
    { [c \in Categories |->
          IF c = "tanks" THEN GalleryData(thumb, images) ELSE FileMissing]
      : thumb \in ThumbRefs, images \in ImageLists }

RenderFs ==
    { [n \in Names |-> "file"],
      [n \in Names |-> IF n = NameGif THEN "absent" ELSE "file"],
      [n \in Names |-> IF n = NameJpgUpper THEN "dir" ELSE "file"] }

\* the names get_asset_url is called with directly
UrlNames == {NamePng, NameTxt}

RenderInit ==
    /\ assets_dir_exists = TRUE
    /\ fs \in RenderFs
    /\ USE_EXTERNAL_ASSETS \in BOOLEAN
    /\ EXTERNAL_ASSET_BASE_URL \in BaseUrls
    /\ asset_cache = EmptyCache
    /\ cache_initialized = FALSE
    /\ buildReturned = FALSE
    /\ enumSinceRefresh = 0
    /\ lastCall = EnvEvent("start", NoName)
    /\ disk \in GalleryDisks
    /\ dm_cache = [c \in Categories |-> NotCached]
    /\ flow = FlowStart
    /\ view = NoView
    /\ interaction = NoSends
    /\ lastSel = SelStart
    /\ lastUrl = NoUrlCall
    /\ lastRender = NoRender

RenderNext ==
    \/ \E c \in Categories : generic_command(c, "ok", "ok")
    \/ \E k \in OptionValues, send1 \in SendOutcomes, send2 \in SendOutcomes :
          BaseSelectorDropdown_callback(k, send1, send2, "ok")
    \/ \E n \in UrlNames : ResolveUrl(n)

RenderSpec == RenderInit /\ [][RenderNext]_vars

(* A process under the external policy: the cache is built at startup       *)
(* (bot.py) or not at all, files are fetched and items rendered.            *)
ExternalInit ==
    /\ assets_dir_exists = TRUE
    /\ fs = [n \in Names |-> "file"]
    /\ USE_EXTERNAL_ASSETS = TRUE
    /\ EXTERNAL_ASSET_BASE_URL \in BaseUrls
    /\ asset_cache = EmptyCache
    /\ cache_initialized = FALSE
    /\ buildReturned = FALSE
    /\ enumSinceRefresh = 0
    /\ lastCall = EnvEvent("start", NoName)
    /\ disk \in GalleryDisks
    /\ dm_cache = [c \in Categories |-> NotCached]
    /\ flow = FlowStart
    /\ view = NoView
    /\ interaction = NoSends
    /\ lastSel = SelStart
    /\ lastUrl = NoUrlCall
    /\ lastRender = NoRender

ExternalNext ==
    \/ BuildCache
    \/ \E n \in Names : FetchLocal(n)
    \/ \E c \in Categories : generic_command(c, "ok", "ok")
    \/ \E k \in OptionValues, send1 \in SendOutcomes, send2 \in SendOutcomes :
          BaseSelectorDropdown_callback(k, send1, send2, "ok")

ExternalSpec == ExternalInit /\ [][ExternalNext]_vars

(* Documents.  A category whose single item varies in its colour, in the   *)
(* number, order and length of its fields and in its image; and a maps file *)
(* whose records vary in the same way.  Every flow can time out.            *)

\* a text of n characters, no two neighbours alike
Text(n) == [i \in 1..n |-> LowerChars[(i % 26) + 1]]

\* lengths around the limit of a field value
ValueLengths ==
    {1, TruncatedValueLen, MaxFieldValueLen, MaxFieldValueLen + 1, MaxFieldValueLen + 6}

\* colour attributes: hex with and without prefix, not hex, empty, a bare
\* prefix, a number, null
ColorValues ==
    { JStr(<<"0","x","F","F","0","0","0","0">>), JStr(<<"f","f">>),
      JStr(<<"r","e","d">>), JStr(<<>>), JStr(<<"0","x">>),
      JNum(<<"2","5","5">>), JNull }

ColorItem(c) ==
    JObj(<< <<"title", JStr(<<"C">>)>>, <<"color", c>>,
            <<"field_role", JStr(<<"r">>)>> >>)

\* an item that declares n numbered fields, counting up or down, with an
\* attribute that is no field after the first of them; the first field's
\* value has `len` characters, the second is a number, the third null
FieldItem(n, len, down) ==
    LET key(i) == IF down THEN FieldKey(n + 1 - i) ELSE FieldKey(i)
        value(i) == IF i = 1 THEN JStr(Text(len))
                    ELSE IF i = 2 THEN JNum(<<"7">>)
                    ELSE IF i = 3 THEN JNull
                    ELSE JStr(<<"v">>)
    IN  JObj(<< <<"title", JStr(<<"F">>)>>, <<key(1), value(1)>>,
                <<"note", JStr(<<"n">>)>> >>
             \o [i \in 1..(n - 1) |-> <<key(i + 1), value(i + 1)>>])

FieldCounts == {1, MaxEmbedFields, MaxEmbedFields + 1, MaxFieldKeys}

\* an item with n numbered fields and inline hints: one for field_role, set,
\* and one for field_1, set or not
InlineItem(n, hint) ==
    JObj(<< <<"title", JStr(<<"I">>)>>, <<"field_role", JStr(<<"r">>)>>,
            <<InlineKey("field_role"), JBool(TRUE)>>,
            <<FieldKey(1), JStr(<<"v">>)>>, <<InlineKey(FieldKey(1)), JBool(hint)>> >>
         \o [i \in 1..(n - 1) |-> <<FieldKey(i + 1), JStr(<<"v">>)>>])

EmbedItems ==
    {ColorItem(c) : c \in ColorValues}
    \cup {FieldItem(n, 1, down) : n \in FieldCounts, down \in BOOLEAN}
    \cup {FieldItem(3, len, FALSE) : len \in ValueLengths}
    \cup {InlineItem(2, TRUE), InlineItem(2, FALSE), InlineItem(MaxEmbedFields - 1, TRUE)}
    \cup {FieldItem(MaxEmbedFields + 1, MaxFieldValueLen + 1, TRUE),
          GalleryItem(NamePng, <<>>), GalleryItem(NameGif, <<NamePng>>)}

\* a map record: terrain, key points and infantry (no armor attribute)
MapInfo(terrain, points) ==
    JObj(<< <<"terrain", terrain>>, <<"points", points>>,
            <<"infantry", JStr(<<"i">>)>> >>)

ShortInfo == MapInfo(JStr(<<"t">>), JStr(<<"p">>))

MapContents ==
    {FileMissing, FileCorrupt, EmptyObj}
    \cup { JObj(<< <<"sme", MapInfo(JStr(Text(len)), JStr(<<"p">>))>>,
                   <<"foy", ShortInfo>> >>) : len \in ValueLengths }
    \cup { JObj(<< <<"foy", MapInfo(JStr(<<"t">>), JStr(Text(len)))>> >>)
           : len \in ValueLengths }
    \cup { JObj(<< <<"sme", ShortInfo>>, <<"bad", JNull>>, <<"foy", ShortInfo>> >>),
           JObj(<< <<"sme", MapInfo(JNum(<<"5">>), JStr(<<"p">>))>> >>),
           JObj(<< <<"sme", MapInfo(JStr(<<"t">>), JNum(<<"5">>))>> >>),
           JObj(<< <<"sme", MapInfo(JStr(<<"t">>), JNull)>> >>) }

\* data with n entries: the first two keys are ones the flows can pick
ManyKey(i, first, second) ==
    IF i = 1 THEN first ELSE IF i = 2 THEN second ELSE "k" \o ToString(i)

\* n factions, the first of them with n items
ManyData(n) ==
    JObj([i \in 1..n |->
            <<ManyKey(i, "us", "german"),
              IF i = 1 THEN JObj([j \in 1..n |-> <<ManyKey(j, "sherman", "stuart"), ItemA>>])
              ELSE JObj(<< <<"tiger", ItemB>> >>)>>])

\* n maps
ManyMaps(n) == JObj([i \in 1..n |-> <<ManyKey(i, "sme", "foy"), ShortInfo>>])

\* a faction with an item whose key is the placeholder's value, an item
\* whose record is empty, a well-formed item and a null record
SentinelData ==
    JObj(<< <<"us", JObj(<< <<"none", ItemA>>, <<"stuart", EmptyObj>>,
                            <<"sherman", ItemB>>, <<"bad", JNull>> >>)>>,
            <<"german", JObj(<< <<"tiger", ItemA>> >>)>> >>)

\* numbers of entries around the limit of a select menu
OptionCounts == {MaxSelectOptions, MaxSelectOptions + 1}

DocCategories == Categories \cup {"maps"}

DocDisks ==
    { [c \in DocCategories |->
          IF c = "tanks" THEN JObj(<< <<"panther", item>> >>) ELSE FileMissing]
      : item \in EmbedItems }
    \cup { [c \in DocCategories |-> IF c = "maps" THEN maps ELSE FileMissing]
           : maps \in MapContents }
    \cup { [c \in DocCategories |->
               IF c = "tanks" THEN GatedNullData
               ELSE IF c = "tips" THEN FlatData
               ELSE FileMissing] }
    \cup { [c \in DocCategories |-> IF c = "tanks" THEN SentinelData ELSE FileMissing] }
    \cup { [c \in DocCategories |->
               IF c = "tanks" THEN ManyData(n)
               ELSE IF c = "maps" THEN ManyMaps(n)
               ELSE FileMissing] : n \in OptionCounts }

NameSmeGrid == ImageFilename("sme", "Grid")
NameSmeNoGrid == ImageFilename("sme", "NoGrid")

\* the assets directory: an item image and two map images; an item image
\* and one map image; an item image and a directory, no map image
DocFs ==
    { [n \in {NamePng, NameSmeGrid, NameSmeNoGrid} |-> "file"],
      [n \in {NamePng, NameSmeGrid} |-> "file"],
      [n \in {NamePng, NameGif} |-> IF n = NamePng THEN "file" ELSE "dir"] }

\* the policy and base URL of a process, with the assets directory it has
DocConfigs ==
    { [fs |-> f, external |-> FALSE, base |-> <<>>] : f \in DocFs }
    \cup { [fs |-> [n \in {NamePng, NameSmeGrid} |-> "file"], external |-> TRUE,
            base |-> b] : b \in { <<"h", "/">>, <<>> } }

\* every value the map dropdown and the variant buttons can offer
MapOptionValues == {"none", "sme", "foy", "bad"}
VariantValues == {VariantSuffixes[i] : i \in 1..Len(VariantSuffixes)}

DocInit ==
    /\ assets_dir_exists = TRUE
    /\ \E c \in DocConfigs :
          /\ fs = c.fs
          /\ USE_EXTERNAL_ASSETS = c.external
          /\ EXTERNAL_ASSET_BASE_URL = c.base
    /\ asset_cache = EmptyCache
    /\ cache_initialized = FALSE
    /\ buildReturned = FALSE
    /\ enumSinceRefresh = 0
    /\ lastCall = EnvEvent("start", NoName)
    /\ disk \in DocDisks
    /\ dm_cache = [c \in DocCategories |-> NotCached]
    /\ flow = FlowStart
    /\ view = NoView
    /\ interaction = NoSends
    /\ lastSel = SelStart
    /\ lastUrl = NoUrlCall
    /\ lastRender = NoRender

DocNext ==
    \/ \E c \in Categories : generic_command(c, "ok", "ok")
    \/ \E f \in OptionValues : FactionSelectorDropdown_callback(f, "ok")
    \/ \E k \in OptionValues, send1 \in SendOutcomes, send2 \in SendOutcomes :
          BaseSelectorDropdown_callback(k, send1, send2, "ok")
    \/ maps_command("ok", "ok")
    \/ \E k \in MapOptionValues : PersistentMapDropdown_callback(k, "ok", "ok")
    \/ \E s \in VariantValues, send1 \in SendOutcomes, send2 \in SendOutcomes :
          PersonalVariantButton_callback(s, send1, send2)
    \/ Timeout

DocSpec == DocInit /\ [][DocNext]_vars

----------------------------------------------------------------------------
(* Properties of the asset store.  A state whose lastCall is an operation  *)
(* of the store is the state right after that call: every event of the     *)
(* environment overwrites lastCall, so fs and assets_dir_exists are still    *)
(* what the call saw.                                                       *)

IsLocalFetch == lastCall.op = "fetch" /\ ~USE_EXTERNAL_ASSETS

\* C5: under Local policy, a fetch of a name that is not a file under the
\* assets root at the time of the call returns NotFound and does not raise,
\* also when the name is still a key of the cache.
C5_FetchOfMissingFileIsNotFound ==
    (IsLocalFetch /\ fs[lastCall.name] # "file") => lastCall.result = "none"

C5_Witness ==
    /\ IsLocalFetch
    /\ fs[lastCall.name] = "absent"
    /\ lastCall.how = "hit"
    /\ lastCall.result = "none"

C7_CacheKeysAreImages ==
    \A k \in DOMAIN asset_cache : HasSupportedSuffix(k)

\* C8: the assets directory is enumerated at most once between process start
\* and a refresh, and between refreshes; a lazy caller that finds the cache
\* built uses it as it is.
C8_AtMostOneBuild ==
    /\ enumSinceRefresh <= 1
    /\ (lastCall.op \in {"build", "fetch"} /\ lastCall.initBefore
          => ~lastCall.enumerated /\ lastCall.keysBefore \subseteq DOMAIN asset_cache)

\* a second lazy caller after a build, although the directory now holds an
\* image the cache does not know
C8_Witness ==
    /\ IsLocalFetch
    /\ lastCall.initBefore
    /\ enumSinceRefresh = 1
    /\ ~(ImageFiles(fs) \subseteq DOMAIN asset_cache)

\* C9: a refresh is one step: the state it leaves is initialized and its
\* cache holds only entries of the rebuild (no key of the old cache survives
\* unless the new enumeration found it), and every lookup works on an
\* initialized cache.
C9_RefreshIsExclusive ==
    /\ (lastCall.op = "refresh"
          => cache_initialized /\ DOMAIN asset_cache \subseteq ImageFiles(fs))
    /\ (IsLocalFetch => cache_initialized)

\* a refresh that dropped an old entry and cached a new one
C9_Witness ==
    /\ lastCall.op = "refresh"
    /\ ~(lastCall.keysBefore \subseteq DOMAIN asset_cache)
    /\ ~(DOMAIN asset_cache \subseteq lastCall.keysBefore)

\* C10: once initialize_asset_cache has returned, the flag is set and a
\* further non-forced call changes neither the cache nor the flag.
C10_BuildIsIdempotent ==
    /\ (buildReturned => cache_initialized)
    /\ (lastCall.op = "build" /\ lastCall.returnedBefore => ~lastCall.changed)

\* a repeated build although the directory's images differ from the cache
C10_Witness ==
    /\ lastCall.op = "build"
    /\ lastCall.returnedBefore
    /\ ImageFiles(fs) # DOMAIN asset_cache
    /\ assets_dir_exists

\* C11: a refresh clears and rebuilds: when the assets directory exists and
\* its enumeration completes, the cache after the refresh has exactly the
\* supported-extension files now in the directory as keys (each with its
\* path under the directory); entries of deleted files and entries the
\* fallback probe added are gone unless the enumeration found them.
C11_RefreshRebuildsExactly ==
    (lastCall.op = "refresh" /\ assets_dir_exists /\ ~lastCall.failed) =>
        /\ DOMAIN asset_cache = ImageFiles(fs)
        /\ \A k \in DOMAIN asset_cache : asset_cache[k] = AssetPath(k)

\* a refresh that completed and dropped the entry the fallback probe had
\* added for a file without image extension, the file still being there
C11_Witness ==
    /\ lastCall.op = "refresh"
    /\ assets_dir_exists
    /\ ~lastCall.failed
    /\ NameTxt \in lastCall.keysBefore
    /\ fs[NameTxt] = "file"
    /\ NameTxt \notin DOMAIN asset_cache
    /\ asset_cache # EmptyCache

\* C12: initialize_asset_cache returns normally when the directory is
\* missing and when the enumeration fails, and then the cache is left empty:
\* no entry of a partially completed enumeration remains.
C12_FailedBuildLeavesCacheEmpty ==
    (lastCall.op = "build" /\ ~lastCall.initBefore
        /\ (~assets_dir_exists \/ lastCall.failed)) =>
        /\ cache_initialized
        /\ asset_cache = EmptyCache

\* C13: no step other than a refresh removes or changes an entry of the
\* cache (also when the entry's file has been deleted); a step that removes
\* an entry is a refresh, and of the old entries it keeps none but those its
\* own enumeration found again.
C13_EntriesOnlyRemovedByRefresh ==
    [][ /\ (lastCall'.op # "refresh" =>
              \A k \in DOMAIN asset_cache :
                  k \in DOMAIN asset_cache' /\ asset_cache'[k] = asset_cache[k])
        /\ ((\E k \in DOMAIN asset_cache : k \notin DOMAIN asset_cache') =>
              /\ lastCall'.op = "refresh"
              /\ DOMAIN asset_cache' \subseteq ImageFiles(fs'))
      ]_vars

\* a fetch that hit an entry whose file is gone, after which the entry and
\* another entry of a deleted file are still cached
C13_Witness ==
    /\ IsLocalFetch
    /\ lastCall.how = "hit"
    /\ lastCall.result = "none"
    /\ lastCall.name \in DOMAIN asset_cache
    /\ \E k \in DOMAIN asset_cache : k # lastCall.name /\ fs[k] = "absent"

----------------------------------------------------------------------------
(* Properties of URL resolution and of rendering.  A state with            *)
(* lastCall.op = "render" and a render recorded in lastRender is the state  *)
(* right after BaseSelectorDropdown.callback rendered an item.              *)

IsRender == lastCall.op = "render" /\ lastRender.key # ""

IsLocalRender == IsRender /\ ~USE_EXTERNAL_ASSETS

\* the references of an item that name a file of the assets directory, as
\* the files get_files opens for them
FoundFiles(item_data, fsys) ==
    LET found == SelectSeq(AssetRefs(item_data),
                           LAMBDA r : PathIsFile(fsys, AssetPath(r.name)))
    IN  [i \in 1..Len(found) |->
            [name |-> found[i].name, ref |-> found[i].ref,
             size |-> FileSize(found[i].name)]]

\* C14: under the external policy get_asset_file returns None for every
\* name and get_files returns the empty list for every item, and neither
\* enumerates the directory nor changes the cache or its flag.
C14_ExternalServesNoBytes ==
    USE_EXTERNAL_ASSETS =>
        /\ (lastCall.op = "fetch" =>
              /\ lastCall.result = "none"
              /\ ~lastCall.enumerated
              /\ ~lastCall.changed)
        /\ (IsRender =>
              /\ lastRender.files = <<>>
              /\ lastRender.attachments = <<>>
              /\ ~lastCall.enumerated
              /\ ~lastCall.changed)

\* an item with a thumbnail and images whose files all exist is rendered
\* while the cache has never been built
C14_Witness ==
    /\ USE_EXTERNAL_ASSETS
    /\ IsRender
    /\ lastRender.reply = "item"
    /\ Len(FoundFiles(lastRender.item, fs)) >= 4
    /\ ~cache_initialized
    /\ asset_cache = EmptyCache

\* C15: get_asset_url returns, under the external policy, the base URL
\* without trailing slash, "/" and the name, for every base URL (the empty
\* one too); under the local policy "attachment://" and the name.
C15_ResolveUrlByPolicy ==
    lastUrl.op = "url" =>
        lastUrl.url =
            IF USE_EXTERNAL_ASSETS
            THEN RStrip(EXTERNAL_ASSET_BASE_URL, "/") \o <<"/">> \o lastUrl.name
            ELSE AttachmentPrefix \o lastUrl.name

\* C16: the policy flag alone selects the resolution path of a response:
\* under the external policy the thumbnail reference is no attachment
\* placeholder and no file is attached; under the local policy the
\* reference is the placeholder and the local files are attached.
C16_OneResolutionPath ==
    (IsRender /\ HasKey(lastRender.item, "thumbnail")) =>
        /\ (USE_EXTERNAL_ASSETS =>
              /\ ~StartsWith(lastRender.embed.thumbnail, AttachmentPrefix)
              /\ lastRender.files = <<>>)
        /\ (~USE_EXTERNAL_ASSETS =>
              /\ StartsWith(lastRender.embed.thumbnail, AttachmentPrefix)
              /\ lastRender.fetched = FoundFiles(lastRender.item, fs))

\* C17 as claimed: all fetched files are returned when their sizes sum to at
\* most 25 MiB; when the sum is greater, exactly the first 3 fetched files
\* are returned and the excess is reported.
C17_OverBudgetReturnsExactlyThree ==
    IsLocalRender =>
        LET found == FoundFiles(lastRender.item, fs)
        IN  /\ (TotalSize(found) <= MAX_TOTAL_SIZE =>
                  lastRender.files = found /\ ~lastRender.warned)
            /\ (TotalSize(found) > MAX_TOTAL_SIZE =>
                  /\ Len(lastRender.files) = 3
                  /\ lastRender.files = SubSeq(found, 1, 3)
                  /\ lastRender.warned)

\* C17 as amended: all fetched files are returned when their sizes sum to at
\* most 25 MiB (exactly 25 MiB included); when the sum is greater, the first
\* 3 fetched files are returned, or all of them when fewer than 3 were
\* fetched, and the excess is reported by the warning of line 232.
C17_OverBudgetReturnsFirstThree ==
    IsLocalRender =>
        LET found == FoundFiles(lastRender.item, fs)
        IN  /\ lastRender.total = TotalSize(found)
            /\ (TotalSize(found) <= MAX_TOTAL_SIZE =>
                  lastRender.files = found /\ ~lastRender.warned)
            /\ (TotalSize(found) > MAX_TOTAL_SIZE =>
                  /\ Len(lastRender.files) = (IF Len(found) < 3 THEN Len(found) ELSE 3)
                  /\ \A i \in 1..Len(lastRender.files) : lastRender.files[i] = found[i]
                  /\ lastRender.warned)

\* five files were fetched, over the limit, and three are returned
C17_Witness ==
    /\ IsLocalRender
    /\ Len(FoundFiles(lastRender.item, fs)) = 5
    /\ lastRender.total > MAX_TOTAL_SIZE
    /\ Len(lastRender.files) = 3
    /\ lastRender.warned

\* C18: when the size limit was exceeded, the document delivered with the
\* reduced file list has a warning field, one that is not a field of the item.
C18_OverBudgetAddsWarningField ==
    (IsRender /\ lastRender.warned /\ lastRender.reply = "item") =>
        /\ lastRender.attachments = lastRender.files
        /\ \E i \in 1..Len(lastRender.doc.fields) :
              ~HasKey(lastRender.item, lastRender.doc.fields[i])

\* the value of the thumbnail attribute, and the additional_images list
ThumbOf(item_data) ==
    IF HasKey(item_data, "thumbnail") THEN Lookup(item_data, "thumbnail").s ELSE NoThumb

ImagesOf(item_data) ==
    LET images == Lookup(item_data, "additional_images").kv
    IN  [i \in 1..Len(images) |-> images[i][2].s]

\* the sequences with the same elements as seq, in every order
Reorderings(seq) ==
    { [i \in 1..Len(seq) |-> seq[f[i]]] :
        f \in {g \in [1..Len(seq) -> 1..Len(seq)] :
                 \A i, j \in 1..Len(seq) : i # j => g[i] # g[j]} }

\* C19: once the fetched sizes of an item's references sum to more than
\* 25 MiB, appending a reference never makes the returned list longer; and
\* whether the limit is exceeded does not depend on the order of the
\* references.
C19_MonotonicOnceOverBudget ==
    IsLocalRender =>
        LET thumb == ThumbOf(lastRender.item)
            images == ImagesOf(lastRender.item)
            Returned(imgs) ==
                get_files(GalleryItem(thumb, imgs), asset_cache, cache_initialized,
                          assets_dir_exists, fs, USE_EXTERNAL_ASSETS)
        IN  /\ (lastRender.total > MAX_TOTAL_SIZE =>
                  \A extra \in Names : \A o \in Returned(images \o <<extra>>) :
                      Len(o.files) <= Len(lastRender.files))
            /\ \A perm \in Reorderings(images) : \A o \in Returned(perm) :
                  o.warned = lastRender.warned

\* C20: the list returned for an item is the thumbnail, if found, followed
\* by the found additional images in the order additional_images declares
\* them, with and without truncation; nothing found is left out unless the
\* list was truncated.
C20_FilesInDeclaredOrder ==
    IsLocalRender =>
        LET files == lastRender.files
            refs == AssetRefs(lastRender.item)
            found == FoundFiles(lastRender.item, fs)
        IN  /\ \A i, j \in 1..Len(files) : i < j => files[i].ref < files[j].ref
            /\ \A i \in 1..Len(files) :
                  \E r \in 1..Len(refs) :
                      refs[r].ref = files[i].ref /\ refs[r].name = files[i].name
            /\ (found # <<>> /\ found[1].ref = 0 => files[1].ref = 0)
            /\ (~lastRender.warned =>
                  \A r \in 1..Len(found) :
                      \E i \in 1..Len(files) : files[i].ref = found[r].ref)

\* a truncated list: the thumbnail, then the second and the third image (the
\* first image is a directory and is skipped), the fourth image cut off
C20_Witness ==
    /\ IsLocalRender
    /\ lastRender.warned
    /\ Len(lastRender.fetched) = 4
    /\ Len(lastRender.files) = 3
    /\ lastRender.files[1].ref = 0
    /\ lastRender.files[2].ref = 2
    /\ lastRender.files[3].ref = 3

----------------------------------------------------------------------------
(* Properties of the content repository and the selection flow.  The       *)
(* shape of a category is read off its data: an item record has no object  *)
(* among its values; a flat category maps keys to item records (or null).  *)

IsItemRecord(v) ==
    v.tag = "obj" /\ \A i \in 1..Len(v.kv) : v.kv[i][2].tag # "obj"

IsFlat(data) ==
    \A i \in 1..Len(data.kv) :
        data.kv[i][2].tag = "null" \/ IsItemRecord(data.kv[i][2])

NumFactions(data) == IF IsFlat(data) THEN 0 ELSE Len(data.kv)

\* C1: after a category command, a category with two or more factions is at
\* FactionPending, and a category with one faction is at ItemPending with the
\* items of that faction as options.  (The zero-faction case is C2's.)
C1_CommandFlowShape ==
    (lastSel.op = "command" /\ NumFactions(lastSel.data) >= 1) =>
        /\ (NumFactions(lastSel.data) >= 2 => flow.state = "FactionPending")
        /\ (NumFactions(lastSel.data) = 1 =>
              /\ flow.state = "ItemPending"
              /\ flow.options = Take(Keys(lastSel.data.kv[1][2]), MaxSelectOptions))

\* C2: for a flat category with items, listFactions is empty, listItems is
\* the whole mapping, and the command goes to ItemPending with its items.
C2_FlatCategoryGoesToItems ==
    (lastSel.op = "command" /\ IsFlat(lastSel.data) /\ Truthy(lastSel.data)) =>
        /\ lastSel.factions = <<>>
        /\ lastSel.items = lastSel.data
        /\ flow.state = "ItemPending"
        /\ flow.options = Take(Keys(lastSel.data), MaxSelectOptions)

KeyOnlyInOtherFaction(data, key, faction) ==
    /\ ~IsFlat(data)
    /\ HasKey(data, faction)
    /\ ~HasKey(Lookup(data, faction), key)
    /\ \E i \in 1..Len(data.kv) : HasKey(data.kv[i][2], key)

\* a call of get_item: direct, or by the item dropdown's callback
IsGetItemCall ==
    lastSel.op = "get_item" \/ (lastSel.op = "item_pick" /\ lastSel.key # "none")

\* C3: get_item(category, key, faction) returns the entry of key in the
\* mapping get_items(category, faction) returns when key is one of its keys,
\* and the empty record (NotFound) otherwise; a key that only another
\* faction's partition holds is NotFound.
C3_ResolveIsLookupInListItems ==
    IsGetItemCall =>
        /\ lastSel.items.tag = "obj"
        /\ (HasKey(lastSel.items, lastSel.key)
              => lastSel.result = Lookup(lastSel.items, lastSel.key))
        /\ (~HasKey(lastSel.items, lastSel.key) => lastSel.result = EmptyObj)
        /\ (KeyOnlyInOtherFaction(lastSel.data, lastSel.key, lastSel.faction)
              => lastSel.result = EmptyObj)

C3_Witness ==
    /\ lastSel.op = "get_item"
    /\ KeyOnlyInOtherFaction(lastSel.data, lastSel.key, lastSel.faction)
    /\ lastSel.result = EmptyObj

\* C4: get_item returns NotFound (the empty record) whenever the faction
\* given is no faction of the category, and whenever the category has no data.
C4_UnknownFactionIsNotFound ==
    lastSel.op = "get_item" =>
        /\ (FactionTruthy(lastSel.faction)
              /\ (IsFlat(lastSel.data) \/ ~HasKey(lastSel.data, lastSel.faction))
              => lastSel.result = EmptyObj)
        /\ (lastSel.data = EmptyObj => lastSel.result = EmptyObj)

----------------------------------------------------------------------------
(* Properties of degraded renders, of timeouts and of listings *)

\* C21: under the local policy, a delivered render of an item whose only
\* image reference is a thumbnail with no file in the assets directory
\* carries no attachment and has a warning field, one that is not a field
\* of the item.
C21_MissingThumbnailYieldsWarning ==
    (/\ IsLocalRender
     /\ HasKey(lastRender.item, "thumbnail")
     /\ ~PathIsFile(fs, AssetPath(StripAttachment(ThumbOf(lastRender.item))))
     /\ ImagesOf(lastRender.item) = <<>>
     /\ lastRender.reply = "item") =>
        /\ lastRender.attachments = <<>>
        /\ \E i \in 1..Len(lastRender.doc.fields) :
              ~HasKey(lastRender.item, lastRender.doc.fields[i])

\* the state right after PersonalVariantButton.callback rendered a map
IsMapRender == lastCall.op = "map_render" /\ lastRender.key # ""

\* the delivered document has a field that is neither an attribute of the
\* record nor one of the briefing fields
HasFlaggedField(r) ==
    \E i \in 1..Len(r.doc.fields) :
        /\ ~HasKey(r.item, r.doc.fields[i])
        /\ \A j \in 1..Len(BriefingKeys) : BriefingKeys[j] # r.doc.fields[i]

\* C22: when the send of a render with attachments fails, the reply is a
\* text-only document (no attachment, no image reference) with a flagged
\* "image unavailable" field, for an item and for a map variant (a map
\* variant whose second send fails as well delivers nothing).
C22_FailedSendFallsBackToFlaggedText ==
    /\ (IsRender /\ lastRender.files # <<>> /\ lastRender.reply # "item") =>
          /\ lastRender.reply = "item_without_attachments"
          /\ lastRender.attachments = <<>>
          /\ lastRender.doc.thumbnail = NoUrl
          /\ HasFlaggedField(lastRender)
    /\ (IsMapRender /\ lastRender.files # <<>>
          /\ lastRender.reply \notin {"map", "nothing"}) =>
          /\ lastRender.reply = "map_too_large"
          /\ lastRender.attachments = <<>>
          /\ lastRender.doc.image = NoUrl
          /\ HasFlaggedField(lastRender)

\* the replies that deliver a document of the item or map picked
DocumentReplies ==
    {"item", "item_without_attachments", "map", "map_without_image", "map_too_large"}

\* C23: a pick of an item or of a map variant ends the flow in that one
\* step, and when it came to rendering, the flow has delivered a document,
\* whole or degraded, also when the render or a send failed (unless every
\* send failed and nothing could be delivered).
C23_PickEndsWithDocument ==
    lastSel.op \in {"item_pick", "variant_pick"} =>
        /\ flow.state = "End"
        /\ (lastRender.key # "" /\ lastRender.reply # "nothing"
              => lastRender.reply \in DocumentReplies)

\* C24: when the inactivity window of a flow that shows a widget (faction
\* dropdown, item dropdown, map dropdown, variant buttons) has expired, the
\* flow is at End, its view takes no further interaction and all its
\* widgets are disabled.
C24_TimeoutDisablesWidgets ==
    lastSel.op = "timeout" =>
        /\ flow.state = "End"
        /\ view.finished
        /\ view.disabled

\* C25: for a category whose data file is missing (as that of an unknown
\* category is) or corrupt, loading it and listing its factions and items
\* return the empty mapping and the empty list; the command ends with the
\* 'no data available' reply, and a dropdown built for the listing offers
\* the placeholder option.
C25_NoDataIsEmptyMapping ==
    (lastSel.op \in {"command", "get_item"}
       /\ disk[lastSel.category] \in {FileMissing, FileCorrupt}) =>
        /\ lastSel.data = EmptyObj
        /\ lastSel.factions = <<>>
        /\ lastSel.items = EmptyObj
        /\ BaseSelectorDropdown_options(lastSel.items) = <<"none">>
        /\ (lastSel.op = "command" =>
              flow = FlowAt("End", lastSel.category, None, <<>>, "no_data"))
        /\ (lastSel.op = "get_item" => lastSel.result = EmptyObj)

\* the command on a category whose file is corrupt, after another category
\* was loaded from its file
C25_Witness ==
    /\ lastSel.op = "command"
    /\ disk[lastSel.category] = FileCorrupt
    /\ flow.reply = "no_data"
    /\ \E c \in Categories : dm_cache[c] # NotCached

\* the keys of a listing whose records are records, in the listing's order
WellFormedKeys(items) ==
    SelectSeq(Keys(items), LAMBDA k : Lookup(items, k).tag = "obj")

\* C26: the item dropdown shown for a listing offers exactly the entries
\* whose record is well-formed: an entry whose record is null is skipped.
C26_MalformedRecordIsSkipped ==
    (/\ lastSel.op \in {"command", "faction_pick"}
     /\ flow.state = "ItemPending"
     /\ \E i \in 1..Len(lastSel.items.kv) : lastSel.items.kv[i][2] = JNull) =>
        flow.options = Take(WellFormedKeys(lastSel.items), MaxSelectOptions)

\* every key of the listing whose record is well-formed is among the options
OffersWellFormed(items, options) ==
    \A i \in 1..Len(WellFormedKeys(items)) :
        \E j \in 1..Len(options) : options[j] = WellFormedKeys(items)[i]

\* C27: when a listing has at least one well-formed record, the widget built
\* for it is shown and offers every well-formed record: the item dropdown
\* and the faction dropdown of the generic flow, and the map dropdown of the
\* maps command.
C27_MalformedRecordNeverBlanksListing ==
    /\ (lastSel.op \in {"command", "faction_pick"}
          /\ lastSel.items.tag = "obj"
          /\ WellFormedKeys(lastSel.items) # <<>>) =>
          /\ flow.state \in {"FactionPending", "ItemPending"}
          /\ OffersWellFormed(IF flow.state = "FactionPending" THEN lastSel.data
                              ELSE lastSel.items, flow.options)
    /\ (lastSel.op = "maps_command" /\ WellFormedKeys(lastSel.data) # <<>>) =>
          /\ flow.state = "MapPending"
          /\ OffersWellFormed(lastSel.data, flow.options)

\* the colour attribute of the item does not read as a hexadecimal integer
ColorUnparsable(item_data) ==
    /\ HasKey(item_data, "color")
    /\ \/ Lookup(item_data, "color").tag # "str"
       \/ HexValueError(Lookup(item_data, "color").s)

\* C28: rendering an item whose colour attribute does not parse as a
\* hexadecimal integer (a string that is not hex, a number, null) does not
\* raise and produces the document with the default colour 0x5865F2.
C28_UnparsableColorGivesDefault ==
    (lastSel.op = "item_pick" /\ lastRender.key # ""
       /\ ColorUnparsable(lastRender.item)) =>
        /\ ~lastRender.embed.raised
        /\ lastRender.embed.color = DefaultColor

\* a rendered value is the text itself when that has at most 1024
\* characters, and else its first 1021 characters followed by "..."
IsCutTo1024(rendered, text) ==
    /\ Len(rendered) <= 1024
    /\ (Len(text) <= 1024 => rendered = text)
    /\ (Len(text) > 1024 =>
          /\ Len(rendered) = 1024
          /\ \A i \in 1..1021 : rendered[i] = text[i]
          /\ \A i \in 1022..1024 : rendered[i] = ".")

\* C29: in the document made for an item, the value of every field is the
\* text of the item's attribute cut to 1024 characters; in the document made
\* for a map variant, the values of the four briefing fields are the map's
\* attributes (or their default texts) cut in the same way, and every other
\* field value has at most 1024 characters.
C29_FieldValuesAreCut ==
    /\ (lastSel.op = "item_pick" /\ lastRender.key # ""
          /\ ~lastRender.embed.raised) =>
          \A d \in {lastRender.embed, lastRender.doc} :
             /\ Len(d.values) = Len(d.fields)
             /\ \A i \in 1..Len(d.fields) :
                   IsCutTo1024(d.values[i], Str(Lookup(lastRender.item, d.fields[i])))
    /\ (lastSel.op = "variant_pick" /\ lastRender.key # ""
          /\ ~lastRender.embed.raised) =>
          \A d \in {lastRender.embed, lastRender.doc} :
             /\ Len(d.values) = Len(d.fields)
             /\ \A i \in 1..Len(d.fields) :
                   /\ Len(d.values[i]) <= 1024
                   /\ i <= Len(BriefingKeys) =>
                        IsCutTo1024(d.values[i],
                            BriefingAttribute(lastRender.item, BriefingKeys[i]).s)

\* an item with a field of more than 1024 characters was delivered, cut
C29_Witness ==
    /\ lastSel.op = "item_pick"
    /\ lastRender.reply = "item"
    /\ \E i \in 1..Len(lastRender.doc.fields) :
          /\ Len(Lookup(lastRender.item, lastRender.doc.fields[i]).s) = 1025
          /\ Len(lastRender.doc.values[i]) = 1024
          /\ lastRender.doc.values[i][1021] # "."

\* the attributes of an item that are fields, in the order of the item
DeclaredFields(item_data) == SelectSeq(Keys(item_data), IsFieldKey)

\* C30: the document made for an item has at most 25 fields: all the fields
\* the item declares when those are at most 25, and else the first 25 of
\* them, in the order the item declares them; the fields beyond are dropped
\* and the render does not raise.
C30_AtMostFirst25Fields ==
    (lastSel.op = "item_pick" /\ lastRender.key # ""
       /\ ~ColorRaises(lastRender.item)) =>
        /\ ~lastRender.embed.raised
        /\ \A d \in {lastRender.embed} \cup
                    (IF lastRender.reply \in DocumentReplies THEN {lastRender.doc}
                     ELSE {}) :
             LET declared == DeclaredFields(lastRender.item)
             IN  /\ Len(d.fields) <= 25
                 /\ Len(d.fields) = IF Len(declared) <= 25 THEN Len(declared) ELSE 25
                 /\ \A i \in 1..Len(d.fields) : d.fields[i] = declared[i]

\* an item with more than 25 fields, declared counting down with another
\* attribute between them, was delivered with 25 fields
C30_Witness ==
    /\ lastSel.op = "item_pick"
    /\ lastRender.reply = "item"
    /\ Len(DeclaredFields(lastRender.item)) > 25
    /\ Len(lastRender.doc.fields) = 25
    /\ lastRender.doc.fields[25] = FieldKey(Len(DeclaredFields(lastRender.item)) - 24)

----------------------------------------------------------------------------
(* data_validator.py *)

\* DataValidator._check_asset_reference, line 173:
\* asset_path.replace('attachment://', ''), whatever the reference starts with
clean_path(asset_path) == RemoveAll(asset_path, AttachmentPrefix)

(* Asset references.  A reference is a concatenation of at most            *)
(* MaxRefPieces pieces: the two halves of the prefix, the prefix and a     *)
(* file name, so that a prefix can stand in front, inside, or be formed    *)
(* by what is left when another one is taken out.                          *)
MaxRefPieces == 4

RefPieces ==
    { <<"a","t","t","a","c","h">>, <<"m","e","n","t",":","/","/">>,
      AttachmentPrefix, NamePng }

RECURSIVE Flatten(_)
Flatten(pieces) ==
    IF pieces = <<>> THEN <<>> ELSE Head(pieces) \o Flatten(Tail(pieces))

RefInputs ==
    { Flatten(p) : p \in UNION { [1..n -> RefPieces] : n \in 0..MaxRefPieces } }

\* the thumbnail reference of create_embed (lines 165-168) and of get_files
\* (lines 191-194) is normalised, starting from a reference of the data and
\* then from the result of the last normalisation
NormInput == IF lastUrl.op = "start" THEN lastUrl.name ELSE lastUrl.url

NormalizeThumbnail ==
    /\ lastUrl' = [op |-> "strip", name |-> NormInput, url |-> StripAttachment(NormInput)]
    /\ UNCHANGED <<assetVars, selVars, lastRender>>

\* _check_asset_reference normalises a reference (skipped when it is empty,
\* lines 170-171)
CheckAssetReference ==
    /\ NormInput # <<>>
    /\ lastUrl' = [op |-> "clean", name |-> NormInput, url |-> clean_path(NormInput)]
    /\ UNCHANGED <<assetVars, selVars, lastRender>>

NormInit ==
    /\ assets_dir_exists = TRUE
    /\ fs = [n \in Names |-> "file"]
    /\ USE_EXTERNAL_ASSETS = FALSE
    /\ EXTERNAL_ASSET_BASE_URL = <<>>
    /\ asset_cache = EmptyCache
    /\ cache_initialized = FALSE
    /\ buildReturned = FALSE
    /\ enumSinceRefresh = 0
    /\ lastCall = EnvEvent("start", NoName)
    /\ disk = [c \in Categories |-> FileMissing]
    /\ dm_cache = [c \in Categories |-> NotCached]
    /\ flow = FlowStart
    /\ view = NoView
    /\ interaction = NoSends
    /\ lastSel = SelStart
    /\ \E ref \in RefInputs : lastUrl = [op |-> "start", name |-> ref, url |-> NoUrl]
    /\ lastRender = NoRender

NormNext ==
    \/ NormalizeThumbnail
    \/ CheckAssetReference

NormSpec == NormInit /\ [][NormNext]_vars

----------------------------------------------------------------------------
(* Data files that change while the process runs: an editor or a deploy    *)
(* writes <category>.json between two interactions.                         *)

FreshCategories == {"tanks", "maps"}

MapsA == JObj(<< <<"sme", ShortInfo>> >>)
MapsB == JObj(<< <<"sme", MapInfo(JStr(<<"n","e","w">>), JStr(<<"p">>))>>,
                 <<"foy", ShortInfo>> >>)

FreshContents(category) ==
    IF category = "tanks" THEN {FileMissing, EmptyObj, GatedData, FlatOneData}
    ELSE {FileCorrupt, MapsA, MapsB}

\* the file of a category is written, removed or damaged
WriteDataFile(category, content) ==
    /\ content # disk[category]
    /\ disk' = [disk EXCEPT ![category] = content]
    /\ lastSel' = SelEvent("write", category, "", None, <<>>, JNull, JNull, JNull)
    /\ lastRender' = NoRender
    /\ UNCHANGED <<dm_cache, flow, view, interaction, assetVars, lastUrl>>

FreshInit ==
    /\ assets_dir_exists = TRUE
    /\ fs = [n \in Names |-> "file"]
    /\ USE_EXTERNAL_ASSETS = TRUE
    /\ EXTERNAL_ASSET_BASE_URL = <<"h">>
    /\ asset_cache = EmptyCache
    /\ cache_initialized = FALSE
    /\ buildReturned = FALSE
    /\ enumSinceRefresh = 0
    /\ lastCall = EnvEvent("start", NoName)
    /\ disk \in {d \in [FreshCategories -> UNION {FreshContents(c) : c \in FreshCategories}] :
                    \A c \in FreshCategories : d[c] \in FreshContents(c)}
    /\ dm_cache = [c \in FreshCategories |-> NotCached]
    /\ flow = FlowStart
    /\ view = NoView
    /\ interaction = NoSends
    /\ lastSel = SelStart
    /\ lastUrl = NoUrlCall
    /\ lastRender = NoRender

FreshNext ==
    \/ generic_command("tanks", "ok", "ok")
    \/ \E f \in {"us", "german", "jeep"} : FactionSelectorDropdown_callback(f, "ok")
    \/ \E k \in {"sherman", "jeep"}, f \in {None, "us"} : ResolveItem("tanks", k, f)
    \/ maps_command("ok", "ok")
    \/ \E k \in {"sme", "foy"} : PersistentMapDropdown_callback(k, "ok", "ok")
    \/ \E c \in FreshCategories : \E content \in FreshContents(c) :
          WriteDataFile(c, content)

FreshSpec == FreshInit /\ [][FreshNext]_vars

----------------------------------------------------------------------------
(* Settings.find_similar_assets *)

\* the three extensions that line 109 and line 113 remove, in this order
SimilarStripped == << <<".","p","n","g">>, <<".","j","p","g">>, <<".","j","p","e","g">> >>

\* name.lower().replace('.png', '').replace('.jpg', '').replace('.jpeg', '')
SimilarBase(name) ==
    RemoveAll(RemoveAll(RemoveAll(Lower(name), SimilarStripped[1]),
                        SimilarStripped[2]), SimilarStripped[3])

\* lines 112-115: the cache keys that are kept.  The model's cache is a
\* mapping without an order, so the list is given by its members; the loop
\* appends them as it meets them.
SimilarKeys(cache, filename) ==
    {asset_name \in DOMAIN cache :
        \/ IsSubstring(SimilarBase(filename), SimilarBase(asset_name))
        \/ IsSubstring(SimilarBase(asset_name), SimilarBase(filename))}

\* Settings.find_similar_assets (lines 105-117): the cache is built first
find_similar_assets(cache, init, dirExists, fsys, filename) ==
    { [cache |-> o.cache, init |-> o.init, enumerated |-> o.enumerated,
       failed |-> o.failed, similar |-> SimilarKeys(o.cache, filename)]
      : o \in initialize_asset_cache(cache, init, dirExists, fsys) }

\* findSimilar(name)
FindSimilar(name) ==
    \E o \in find_similar_assets(asset_cache, cache_initialized, assets_dir_exists,
                                  fs, name) :
        /\ asset_cache' = o.cache
        /\ cache_initialized' = o.init
        /\ buildReturned' = TRUE
        /\ enumSinceRefresh' = IF o.enumerated THEN Bump(enumSinceRefresh)
                               ELSE enumSinceRefresh
        /\ lastCall' = [Event("similar", name, o, "na", "na") EXCEPT !.result = o.similar]
        /\ UNCHANGED <<fs, assets_dir_exists, USE_EXTERNAL_ASSETS,
                       EXTERNAL_ASSET_BASE_URL, selVars, renderVars>>

\* queries: a cached name, its stem, a stem in upper case, a longer stem, an
\* extension without its dot, a name with another extension, no text
SimilarQueries ==
    { NamePng, <<"a">>, <<"B">>, <<"c","c">>, <<"g","i","f">>,
      <<"c",".","w","e","b","p">>, <<>> }

SimilarInit ==
    /\ assets_dir_exists \in BOOLEAN
    /\ fs \in [Names -> {"absent", "file"}]
    /\ (~assets_dir_exists => fs = [n \in Names |-> "absent"])
    /\ USE_EXTERNAL_ASSETS = FALSE
    /\ EXTERNAL_ASSET_BASE_URL = <<>>
    /\ asset_cache = EmptyCache
    /\ cache_initialized = FALSE
    /\ buildReturned = FALSE
    /\ enumSinceRefresh = 0
    /\ lastCall = EnvEvent("start", NoName)
    /\ disk = [c \in Categories |-> FileMissing]
    /\ dm_cache = [c \in Categories |-> NotCached]
    /\ flow = FlowStart
    /\ view = NoView
    /\ interaction = NoSends
    /\ lastSel = SelStart
    /\ lastUrl = NoUrlCall
    /\ lastRender = NoRender

SimilarNext ==
    \/ BuildCache
    \/ \E n \in SimilarQueries : FindSimilar(n)
    \/ Refresh

SimilarSpec == SimilarInit /\ [][SimilarNext]_vars

----------------------------------------------------------------------------
(* Interactions.  Every message a handler sends can be delivered or fail;  *)
(* the data make every handler take each of its paths: a category without  *)
(* data, with and without factions, records that make the render or the    *)
(* dropdown raise, and an image that is and is not there.                   *)

SendDisks ==
    { [c \in DocCategories |-> IF c = "tanks" THEN content ELSE FileMissing]
      : content \in { FileMissing, SentinelData,
                      JObj(<< <<"panther", ColorItem(JNull)>>,
                              <<"tiger", GalleryItem(NamePng, <<>>)>>,
                              <<"jeep", JStr(<<"j">>)>> >>) } }
    \cup { [c \in DocCategories |-> IF c = "maps" THEN content ELSE FileMissing]
           : content \in { MapsA,
                           JObj(<< <<"sme", MapInfo(JNum(<<"5">>), JStr(<<"p">>))>>,
                                   <<"foy", MapInfo(JStr(<<"t">>), JNum(<<"5">>))>> >>),
                           JObj(<< <<"sme", ShortInfo>>, <<"bad", JNull>> >>) } }

SendInit ==
    /\ assets_dir_exists = TRUE
    /\ fs = [n \in {NamePng, NameSmeGrid} |-> "file"]
    /\ USE_EXTERNAL_ASSETS \in BOOLEAN
    /\ EXTERNAL_ASSET_BASE_URL = <<"h">>
    /\ asset_cache = EmptyCache
    /\ cache_initialized = FALSE
    /\ buildReturned = FALSE
    /\ enumSinceRefresh = 0
    /\ lastCall = EnvEvent("start", NoName)
    /\ disk \in SendDisks
    /\ dm_cache = [c \in DocCategories |-> NotCached]
    /\ flow = FlowStart
    /\ view = NoView
    /\ interaction = NoSends
    /\ lastSel = SelStart
    /\ lastUrl = NoUrlCall
    /\ lastRender = NoRender

SendNext ==
    \/ \E send1 \in SendOutcomes, send2 \in SendOutcomes :
          generic_command("tanks", send1, send2)
    \/ \E f \in OptionValues, send1 \in SendOutcomes :
          FactionSelectorDropdown_callback(f, send1)
    \/ \E k \in OptionValues \cup {"panther", "tiger", "jeep"},
           send1 \in SendOutcomes, send2 \in SendOutcomes, send3 \in SendOutcomes :
          BaseSelectorDropdown_callback(k, send1, send2, send3)
    \/ \E send1 \in SendOutcomes, send2 \in SendOutcomes : maps_command(send1, send2)
    \/ \E k \in MapOptionValues, send1 \in SendOutcomes, send2 \in SendOutcomes :
          PersistentMapDropdown_callback(k, send1, send2)
    \/ \E s \in VariantValues, send1 \in SendOutcomes, send2 \in SendOutcomes :
          PersonalVariantButton_callback(s, send1, send2)

SendSpec == SendInit /\ [][SendNext]_vars

----------------------------------------------------------------------------
(* Properties of normalisation, of listings and of caches *)

\* C31: normalising an asset reference is idempotent, in the renderer and in
\* the validator: the result of a normalisation is left as it is by the same
\* normalisation
C31_NormalizationIsIdempotent ==
    /\ lastUrl.op = "strip" => StripAttachment(lastUrl.url) = lastUrl.url
    /\ lastUrl.op = "clean" => clean_path(lastUrl.url) = lastUrl.url

\* the flow shows a selection widget: a faction, item or map dropdown
WidgetShown == flow.state \in {"FactionPending", "ItemPending", "MapPending"}

\* C32: every selection widget presented to a user (item, faction or map
\* dropdown) has at least 1 and at most 25 options
C32_WidgetHasOneTo25Options ==
    WidgetShown => Len(flow.options) \in 1..MaxSelectOptions

\* the last event is an operation that asked the repository for its category
IsLoad ==
    lastSel.op \in {"command", "faction_pick", "item_pick", "get_item",
                    "maps_command", "map_pick"}

\* C33: once a category is loaded, no step removes or replaces its cached
\* mapping, and every later operation on the category gets that mapping,
\* whatever the data file holds by then
C33_LoadedCategoryIsFixed ==
    [][\A c \in DOMAIN dm_cache :
          dm_cache[c] # NotCached =>
             /\ dm_cache'[c] = dm_cache[c]
             /\ (IsLoad' /\ lastSel'.category = c => lastSel'.data = dm_cache[c])]_vars

\* a category was loaded, its file was changed, and an operation asked for
\* the category again
C33_Witness ==
    /\ IsLoad
    /\ dm_cache[lastSel.category] # NotCached
    /\ disk[lastSel.category] # dm_cache[lastSel.category]
    /\ lastSel.data = dm_cache[lastSel.category]

\* what a read of the file gives now
FileData(category) ==
    IF disk[category] \in {FileMissing, FileCorrupt} THEN EmptyObj ELSE disk[category]

\* C35: the construction of the map dropdown and its selection callback use
\* the contents the maps file has at that interaction
C35_MapFlowSeesFileChanges ==
    lastSel.op \in {"maps_command", "map_pick"} => lastSel.data = FileData("maps")

\* the lower-case name without its extension, when that is a supported one
Stem(name) ==
    IF HasSupportedSuffix(name)
    THEN Lower(SubSeq(name, 1, Len(name) - Len(Suffix(name))))
    ELSE Lower(name)

\* C34: findSimilar(name) returns exactly the cache keys whose
\* extension-stripped lower-case name contains, or is contained in, the
\* extension-stripped lower-case query, for every supported extension
C34_SimilarIsStemContainment ==
    lastCall.op = "similar" =>
        lastCall.result =
            {k \in DOMAIN asset_cache :
                \/ IsSubstring(Stem(lastCall.name), Stem(k))
                \/ IsSubstring(Stem(k), Stem(lastCall.name))}

\* the image a delivered document refers to: the thumbnail of an item
\* document, the image of a map document
DocImage(doc) == IF "image" \in DOMAIN doc THEN doc.image ELSE doc.thumbnail

\* C36: whenever a delivered document refers to an image as attachment://X,
\* the same response carries an attachment named X
C36_AttachmentRefHasAttachment ==
    LET url == DocImage(lastRender.doc)
    IN  StartsWith(url, AttachmentPrefix) =>
           \E i \in 1..Len(lastRender.attachments) :
              lastRender.attachments[i].name
                 = SubSeq(url, Len(AttachmentPrefix) + 1, Len(url))

\* C37: the attachment list get_files returns has a total size of at most
\* 25 MiB, whatever the sizes and the number of the references
C37_ReturnedFilesWithinBudget ==
    IsRender => TotalSize(lastRender.files) <= MAX_TOTAL_SIZE

\* C38: an option of an item dropdown that was built from a non-empty item
\* mapping resolves its item and is rendered: picking it never ends in the
\* 'no content available' or the 'could not be found' reply
C38_OfferedOptionIsSelectable ==
    lastSel.op = "item_pick" /\ Truthy(lastSel.items) =>
        flow.reply \notin {"no_content", "not_found"}

\* the content field attributes of an item, in the order of the record: the
\* keys that start with 'field_' and are no inline hint
ContentFields(item_data) ==
    LET IsContent(key) == IsFieldKey(key) /\ key \notin InlineKeys
    IN  SelectSeq(Keys(item_data), IsContent)

\* C39: the display fields of a rendered item are its content field
\* attributes (the first 25 of them); an inline hint only sets the inline
\* flag of its field, is not rendered and does not count toward the cap
C39_InlineHintIsNoField ==
    IsRender /\ lastRender.reply = "item" =>
        /\ lastRender.doc.fields = Take(ContentFields(lastRender.item), MaxEmbedFields)
        /\ \A i \in 1..Len(lastRender.doc.fields) :
              lastRender.doc.inlines[i]
                 = InlineFlag(lastRender.item, lastRender.doc.fields[i])

\* C40: in an execution of a handler the initial response is delivered at
\* most once, and no initial response is issued once one was delivered (a
\* later message is a follow-up)
C40_InitialResponseAtMostOnce ==
    /\ Cardinality({i \in 1..Len(interaction) : interaction[i] = Response("ok")}) <= 1
    /\ \A i \in 1..Len(interaction) :
          interaction[i].channel = "response" =>
             ~is_done(SubSeq(interaction, 1, i - 1))

\* an error path sent the initial response after the handler's own message
\* had failed
C40_Witness ==
    /\ Len(interaction) >= 2
    /\ interaction[1].channel = "response" /\ interaction[1].outcome # "ok"
    /\ interaction[Len(interaction)] = Response("ok")


============================================================================
